---- MODULE Spec2Model ----
(***************************************************************************)
(* sync_music: incremental synchronisation of a source music tree into a   *)
(* destination tree (SyncMusic.sync_audio), with the hash database HashDb  *)
(* that decides what is reprocessed, the clean-up of destination files     *)
(* whose source vanished, and the pruning of empty directories.            *)
(*                                                                         *)
(* Paths are sequences of one-character strings, so that the path          *)
(* functions (splitext, correct_path_fat32, parents) are computed and not  *)
(* assumed.  File contents are records [head, tail]: head stands for the   *)
(* first 4096 bytes of the file, tail for the rest.                        *)
(***************************************************************************)
EXTENDS Naturals, Sequences, FiniteSets, TLC

(* ---------------------------------------------------------------------- *)
(* Bounds of the model                                                     *)
(* ---------------------------------------------------------------------- *)

\* number of changes the user makes to the two trees between invocations
MaxEnv == 1

\* length of the file names correct_path_fat32 is applied to
MaxLen == 3

(* ---------------------------------------------------------------------- *)
(* Paths                                                                   *)
(* ---------------------------------------------------------------------- *)

\* two files that are transcoded to the same destination d/a_.mp3, and a
\* file that no action applies to
FA == <<"d", "/", "a", ":", ".", "f", "l", "a", "c">>
FB == <<"d", "/", "a", ":", ".", "o", "g", "g">>
FN == <<"n", ".", "t", "x", "t">>

\* the files that may exist below the source root
SrcUniverse == {FA, FB, FN}

\* Python's None, for a path and for a hash
None == <<>>

Max(S) == CHOOSE x \in S : \A y \in S : y <= x

\* index of the last "/" of p, 0 when there is none
LastSep(p) == Max({0} \cup {i \in DOMAIN p : p[i] = "/"})

\* pathlib's name / os.path.basename: the last component
Name(p) == SubSeq(p, LastSep(p) + 1, Len(p))

\* os.path.splitext: the extension starts at the last "." of the last
\* component; leading dots of the component do not start an extension
SplitExt(p) ==
    LET sep == LastSep(p)
        dots == {i \in DOMAIN p : /\ p[i] = "."
                                  /\ i > sep
                                  /\ \E j \in (sep + 1)..(i - 1) : p[j] # "."}
    IN  IF dots = {}
        THEN <<p, <<>>>>
        ELSE <<SubSeq(p, 1, Max(dots) - 1), SubSeq(p, Max(dots), Len(p))>>

Suffix(p) == SplitExt(p)[2]

EndsWith(p, s) ==
    /\ Len(s) <= Len(p)
    /\ SubSeq(p, Len(p) - Len(s) + 1, Len(p)) = s

\* the directories above p, the root (the empty path) included
Parents(p) == {SubSeq(p, 1, i - 1) : i \in {j \in DOMAIN p : p[j] = "/"}} \cup {<<>>}

\* pathlib's parent
Parent(p) == SubSeq(p, 1, Max({1} \cup {i \in DOMAIN p : p[i] = "/"}) - 1)

\* the text between [ and ] of the pattern r'[\\|:|*|?|"|<|>|\|]'
Fat32Class == <<"\\", "\\", "|", ":", "|", "*", "|", "?", "|", "\"", "|",
                "<", "|", ">", "|", "\\", "|">>

RECURSIVE CharClass(_, _)
\* the characters a character class matches: a backslash escapes the
\* character after it, every other character stands for itself
CharClass(class, i) ==
    IF i > Len(class)
    THEN {}
    ELSE IF class[i] = "\\" /\ i < Len(class)
         THEN {class[i + 1]} \cup CharClass(class, i + 2)
         ELSE {class[i]} \cup CharClass(class, i + 1)

\* the characters correct_path_fat32's character class matches
Fat32Illegal == CharClass(Fat32Class, 1)

\* a re.sub with count=1: only the first match is replaced
correct_path_fat32_first(filename) ==
    [i \in DOMAIN filename |->
        IF /\ filename[i] \in Fat32Illegal
           /\ \A j \in 1..(i - 1) : filename[j] \notin Fat32Illegal
        THEN "_" ELSE filename[i]]

correct_path_fat32(filename) ==
    [i \in DOMAIN filename |->
        IF filename[i] \in Fat32Illegal THEN "_" ELSE filename[i]]

\* a name that list_all_files leaves out: a component starting with "."
Hidden(p) ==
    \E i \in DOMAIN p : p[i] = "." /\ (i = 1 \/ p[i - 1] = "/")

(* ---------------------------------------------------------------------- *)
(* Actions (Copy, Transcode, ProcessMetadata) and their selection          *)
(* ---------------------------------------------------------------------- *)

Modes == {"auto"}

SuffixMp3 == <<".", "m", "p", "3">>
FolderJpg == <<"f", "o", "l", "d", "e", "r", ".", "j", "p", "g">>

get_supported_filetypes ==
    {<<".", "f", "l", "a", "c">>, <<".", "o", "g", "g">>, SuffixMp3}

get_out_filetype == SuffixMp3

get_out_filename(action, path) ==
    IF action = "Copy" THEN path ELSE SplitExt(path)[1] \o SuffixMp3

\* filter(None, actions)
FilterNone(actions) == SelectSeq(actions, LAMBDA a : a # "None")

\* a selection whose pipeline propagates the tags before it transcodes
_get_file_actions_tags_first(a, in_filename) ==
    LET action_transcode ==
            IF a.disable_file_processing THEN "None" ELSE "Transcode"
        action_processmetadata ==
            IF a.disable_tag_processing THEN "None" ELSE "ProcessMetadata"
    IN  IF EndsWith(Name(in_filename), FolderJpg)
        THEN <<"Copy">>
        ELSE IF /\ action_transcode # "None"
                /\ Suffix(in_filename) \in get_supported_filetypes
             THEN IF \/ a.mode = "copy"
                     \/ a.mode = "auto" /\ Suffix(in_filename) = get_out_filetype
                  THEN <<"Copy">>
                  ELSE FilterNone(<<action_processmetadata, action_transcode>>)
             ELSE <<>>

_get_file_actions(a, in_filename) ==
    LET action_transcode ==
            IF a.disable_file_processing THEN "None" ELSE "Transcode"
        action_processmetadata ==
            IF a.disable_tag_processing THEN "None" ELSE "ProcessMetadata"
    IN  IF EndsWith(Name(in_filename), FolderJpg)
        THEN <<"Copy">>
        ELSE IF /\ action_transcode # "None"
                /\ Suffix(in_filename) \in get_supported_filetypes
             THEN IF \/ a.mode = "copy"
                     \/ a.mode = "auto" /\ Suffix(in_filename) = get_out_filetype
                  THEN <<"Copy">>
                  ELSE FilterNone(<<action_transcode, action_processmetadata>>)
             ELSE <<>>

\* an out_filename that is the name the first action gives, as it is
OutFilename_raw(a, in_filename) ==
    LET actions == _get_file_actions(a, in_filename)
    IN  IF actions = <<>>
        THEN None
        ELSE get_out_filename(actions[1], in_filename)

\* out_filename of _process_file: None for a task without actions
OutFilename(a, in_filename) ==
    LET actions == _get_file_actions(a, in_filename)
    IN  IF actions = <<>>
        THEN None
        ELSE correct_path_fat32(get_out_filename(actions[1], in_filename))

(* ---------------------------------------------------------------------- *)
(* HashDb                                                                  *)
(* ---------------------------------------------------------------------- *)

\* a file content that does not exist
Absent == [head |-> 0, tail |-> 0]

\* md5 of the whole file
calculate_hash_whole(content) == <<"md5", content.head, content.tail>>

\* md5 of the first 4096 bytes
calculate_hash(content) == <<"md5", content.head>>

\* the dictionary {}: no key has a record
EmptyDb == [k \in SrcUniverse |-> None]

get_item(db, in_filename) ==
    IF db[in_filename] = None THEN <<None, None>> ELSE db[in_filename]

\* an add_item that keeps one record per destination: the records of other
\* files with the same destination are taken out
add_item_one_per_dest(db, in_filename, out_filename, file_hash) ==
    [k \in DOMAIN db |->
        IF k = in_filename
        THEN <<out_filename, file_hash>>
        ELSE IF db[k] # None /\ db[k][1] = out_filename
             THEN None
             ELSE db[k]]

add_item(db, in_filename, out_filename, file_hash) ==
    [db EXCEPT ![in_filename] = <<out_filename, file_hash>>]

\* a delete_item that leaves the record in place
delete_item_noop(db, in_filename) == db

delete_item(db, in_filename) == [db EXCEPT ![in_filename] = None]

\* the keys of get_items()
Keys(db) == {k \in SrcUniverse : db[k] # None}

\* pickle.dump(self._database, database_file): the items of the dictionary
pickle_dump(db) == {<<k, db[k]>> : k \in Keys(db)}

\* a pickle.load that loses the records of the file
pickle_load_empty(items) == [k \in SrcUniverse |-> None]

\* pickle.load(database_file): the dictionary with these items
pickle_load(items) ==
    [k \in SrcUniverse |->
        IF \E i \in items : i[1] = k
        THEN (CHOOSE i \in items : i[1] = k)[2]
        ELSE None]

\* __enter__: the pickled dictionary, or {} when there is no file
Load(file) == IF file.exists THEN file.map ELSE EmptyDb

NoFile == [exists |-> FALSE, map |-> EmptyDb]

(* ---------------------------------------------------------------------- *)
(* The two trees                                                           *)
(* ---------------------------------------------------------------------- *)

\* the store file audio_dest / "sync_music.db"
DbPath == <<"s", "y", "n", "c", "_", "m", "u", "s", "i", "c", ".", "d", "b">>

\* the root directory of a tree
Root == <<>>

\* util.list_all_files: the files of the tree that are not hidden
list_all_files(tree) == {f \in DOMAIN tree : tree[f] # Absent /\ ~Hidden(f)}

\* the names os.listdir(d) returns that are files, for the destination tree
FilesIn(d, files) == {f \in files : Parent(f) = d}

\* the names os.listdir(d) returns that are directories
DirsIn(d, ds) == {c \in ds : c # Root /\ Parent(c) = d}

\* util.delete_empty_directories(path): the set of directories it removes.
\* It returns True for path exactly when path is in that set.
RECURSIVE delete_empty_directories(_, _, _)
delete_empty_directories(path, ds, files) ==
    IF path \notin ds
    THEN {}
    ELSE LET below == UNION {delete_empty_directories(c, ds, files) :
                                c \in DirsIn(path, ds)}
         IN  IF /\ FilesIn(path, files) = {}
                /\ \A c \in DirsIn(path, ds) : c \in below
             THEN below \cup {path}
             ELSE below

(* ---------------------------------------------------------------------- *)
(* State                                                                   *)
(* ---------------------------------------------------------------------- *)

VARIABLES
    src,          \* source tree: path -> content, Absent when there is no file
    dst,          \* destination tree: the audio files that exist
    dirs,         \* destination tree: the directories that exist (Root = audio_dest)
    dbfile,       \* the store file on disk: [exists, map]
    database,     \* HashDb._database: [open, map]; open = FALSE is None
    args,         \* the settings of the running invocation
    pc,           \* where sync_audio is: idle, cleanup, sched, done
    todo,         \* _clean_up_missing_files: records still to be examined
    st,           \* per task: none, new, run, skip, uptodate, ok, ioerr, exc
    applied,      \* per task: how many of its actions have been executed
    file_hashes,  \* sync_audio's file_hashes, without the None entries
    removed,      \* history: destination files unlinked by this invocation
    file0,        \* history: the store file when the invocation started
    unlink_failed,\* history: destination files whose unlink raised OSError
    early,        \* history: tasks that had succeeded when the first task raised
    raised,       \* history: sync_audio ended by raising an exception
    wrote,        \* history: __exit__ wrote the store file
    prev,         \* history: how the invocation before this one ended
    changed,      \* history: what the user changed since the last invocation
    envs          \* user changes made

\* The inputs of the scenarios that are studied one invocation at a time;
\* sync_audio never writes them.
VARIABLES
    file_tasks,   \* sync_audio's file_tasks: the order in which the tasks are listed
    dst0,         \* the destination files when the invocation started
    ret,          \* the HashDb method called last and how it returned
    atclose,      \* history: HashDb._database when __exit__ was last called
    given,        \* the argument of a function of util that is studied by itself
    result        \* what the function returned for it: [done, value]

\* The playlists: sync_audio never reads or writes them.
VARIABLES
    playlist_src, \* the playlists below playlist_src: name -> [exists, lines]
    playlist_dest,\* the playlists below audio_dest: name -> [exists, lines]
    ppc,          \* where sync_playlists is: idle, loop, done
    ptodo,        \* the playlists rglob has still to yield
    plog,         \* the messages logged by sync_playlists
    plines        \* history: per playlist, what became of each of its lines

pvars == <<playlist_src, playlist_dest, ppc, ptodo, plog, plines>>

\* the two playlists that may exist below playlist_src
P1 == <<"p", ".", "m", "3", "u">>
P2 == <<"s", "/", "q", ".", "m", "3", "u">>

PlaylistNames == {P1, P2}

NoPlaylist == [exists |-> FALSE, lines |-> <<>>]

\* no playlist source: sync_playlists is not called
NoPlaylists ==
    /\ playlist_src = [p \in PlaylistNames |-> NoPlaylist]
    /\ playlist_dest = [p \in PlaylistNames |-> NoPlaylist]
    /\ ppc = "idle"
    /\ ptodo = <<>>
    /\ plog = {}
    /\ plines = [p \in PlaylistNames |-> <<>>]

aux == <<file_tasks, dst0, ret, atclose, given, result, pvars>>

vars == <<src, dst, dirs, dbfile, database, args, pc, todo, st, applied,
          file_hashes, removed, file0, unlink_failed, early, raised, wrote, prev,
          changed, envs, aux>>

\* what a HashDb method returned: the exception it raised ("none" when it
\* returned), the tuple of get_item, the tuples of get_items, and for
\* __exit__ whether the file was written
Returned(call, exc, item, items, stored) ==
    [call |-> call, exc |-> exc, item |-> item, items |-> items,
     stored |-> stored]

NoCall == Returned("none", "none", <<None, None>>, {}, FALSE)

NeverClosed == [closed |-> FALSE, map |-> EmptyDb]

NoResult == [done |-> FALSE, value |-> <<>>]

\* no scenario: the listing order is left open
NoAux ==
    /\ file_tasks = <<>>
    /\ dst0 = {}
    /\ ret = NoCall
    /\ atclose = NeverClosed
    /\ given = <<>>
    /\ result = NoResult
    /\ NoPlaylists

Content1 == [head |-> 1, tail |-> 1]

Closed == [open |-> FALSE, map |-> EmptyDb]

NoArgs == [force |-> FALSE, batch |-> TRUE, jobs |-> 1, mode |-> "auto",
           disable_file_processing |-> FALSE, disable_tag_processing |-> FALSE]

NoPrev == [failed |-> {}, settled |-> FALSE]

NoChange == [src |-> FALSE, dst |-> FALSE]

Init ==
    /\ src \in [SrcUniverse -> {Absent, Content1}]
    /\ dst = {}
    /\ dirs = {Root}
    /\ dbfile = NoFile
    /\ database = Closed
    /\ args = NoArgs
    /\ pc = "idle"
    /\ todo = {}
    /\ st = [f \in SrcUniverse |-> "none"]
    /\ applied = [f \in SrcUniverse |-> 0]
    /\ file_hashes = {}
    /\ removed = {}
    /\ file0 = NoFile
    /\ unlink_failed = {}
    /\ early = {}
    /\ raised = FALSE
    /\ wrote = FALSE
    /\ prev = NoPrev
    /\ changed = NoChange
    /\ envs = 0
    /\ NoAux

(* ---------------------------------------------------------------------- *)
(* The user, between two invocations                                       *)
(* ---------------------------------------------------------------------- *)

\* (before the first invocation every source tree is an initial state)
Between == pc = "done" /\ envs < MaxEnv

UNCHANGED_RUN ==
    UNCHANGED <<dbfile, database, args, pc, todo, st, applied, file_hashes,
                removed, file0, unlink_failed, early, raised, wrote, prev, aux>>

\* the first 4096 bytes of a source file are edited
EnvModify(f) ==
    /\ Between
    /\ src[f] # Absent
    /\ src' = [src EXCEPT ![f] = [@ EXCEPT !.head = 3 - @]]
    /\ changed' = [changed EXCEPT !.src = TRUE]
    /\ envs' = envs + 1
    /\ UNCHANGED <<dst, dirs>>
    /\ UNCHANGED_RUN

\* a source file is deleted
EnvRemoveSrc(f) ==
    /\ Between
    /\ src[f] # Absent
    /\ src' = [src EXCEPT ![f] = Absent]
    /\ changed' = [changed EXCEPT !.src = TRUE]
    /\ envs' = envs + 1
    /\ UNCHANGED <<dst, dirs>>
    /\ UNCHANGED_RUN

\* a source file is added
EnvAddSrc(f) ==
    /\ Between
    /\ src[f] = Absent
    /\ src' = [src EXCEPT ![f] = Content1]
    /\ changed' = [changed EXCEPT !.src = TRUE]
    /\ envs' = envs + 1
    /\ UNCHANGED <<dst, dirs>>
    /\ UNCHANGED_RUN

\* a destination file is deleted by hand
EnvRemoveDst(d) ==
    /\ Between
    /\ d \in dst
    /\ dst' = dst \ {d}
    /\ changed' = [changed EXCEPT !.dst = TRUE]
    /\ envs' = envs + 1
    /\ UNCHANGED <<src, dirs>>
    /\ UNCHANGED_RUN

(* ---------------------------------------------------------------------- *)
(* sync_audio                                                              *)
(* ---------------------------------------------------------------------- *)

\* HashDb.__exit__: the store file after the dump of db.  Opening the file
\* for writing fails with an IOError when its directory does not exist.
CanWrite(ds) == Root \in ds

Exit(file, db, ds) ==
    IF CanWrite(ds)
    THEN [exists |-> TRUE, map |-> pickle_load(pickle_dump(db))]
    ELSE file

\* the files below the destination root, the store file included
DestFiles(files, file) == files \cup (IF file.exists THEN {DbPath} ELSE {})

\* a sync_audio that cleans up before it looks for input files
StartRun_cleans_first(force, batch, jobs, mode) ==
    /\ pc \in {"idle", "done"}
    /\ args' = [force |-> force, batch |-> batch, jobs |-> jobs, mode |-> mode,
                disable_file_processing |-> FALSE,
                disable_tag_processing |-> FALSE]
    /\ prev' = [failed |-> IF changed.src
                           THEN {}
                           ELSE {f \in SrcUniverse : st[f] = "ioerr"},
                settled |-> /\ pc = "done"
                            /\ \A f \in SrcUniverse : st[f] \notin {"ioerr", "exc"}
                            /\ wrote
                            /\ ~changed.src
                            /\ ~changed.dst
                            /\ mode = args.mode]
    /\ changed' = NoChange
    /\ file0' = dbfile
    /\ unlink_failed' = {}
    /\ early' = {}
    /\ st' = [f \in SrcUniverse |-> "none"]
    /\ applied' = [f \in SrcUniverse |-> 0]
    /\ file_hashes' = {}
    /\ IF list_all_files(src) = {}
       THEN \* the exception leaves the with block: __exit__ runs
            /\ raised' = TRUE
            /\ dbfile' = Exit(dbfile,
                              [k \in SrcUniverse |->
                                  IF src[k] = Absent THEN None ELSE Load(dbfile)[k]],
                              dirs)
            /\ removed' = {Load(dbfile)[k][1] : k \in Keys(Load(dbfile))} \cap dst
            /\ dst' = dst \ {Load(dbfile)[k][1] : k \in Keys(Load(dbfile))}
            /\ wrote' = CanWrite(dirs)
            /\ database' = Closed
            /\ todo' = {}
            /\ pc' = "done"
       ELSE /\ raised' = FALSE
            /\ wrote' = FALSE
            /\ database' = [open |-> TRUE, map |-> Load(dbfile)]
            /\ todo' = Keys(Load(dbfile))
            /\ pc' = "cleanup"
            /\ removed' = {}
            /\ UNCHANGED <<dbfile, dst>>
    /\ UNCHANGED aux
    /\ UNCHANGED <<src, dirs, envs>>

\* with self._hashdb: files = list(...); if not files: raise FileNotFoundError
StartRun(force, batch, jobs, mode) ==
    /\ pc \in {"idle", "done"}
    /\ args' = [force |-> force, batch |-> batch, jobs |-> jobs, mode |-> mode,
                disable_file_processing |-> FALSE,
                disable_tag_processing |-> FALSE]
    /\ prev' = [failed |-> IF changed.src
                           THEN {}
                           ELSE {f \in SrcUniverse : st[f] = "ioerr"},
                settled |-> /\ pc = "done"
                            /\ \A f \in SrcUniverse : st[f] \notin {"ioerr", "exc"}
                            /\ wrote
                            /\ ~changed.src
                            /\ ~changed.dst
                            /\ mode = args.mode]
    /\ changed' = NoChange
    /\ file0' = dbfile
    /\ unlink_failed' = {}
    /\ early' = {}
    /\ st' = [f \in SrcUniverse |-> "none"]
    /\ applied' = [f \in SrcUniverse |-> 0]
    /\ file_hashes' = {}
    /\ removed' = {}
    /\ IF list_all_files(src) = {}
       THEN \* the exception leaves the with block: __exit__ runs
            /\ raised' = TRUE
            /\ dbfile' = Exit(dbfile, Load(dbfile), dirs)
            /\ wrote' = CanWrite(dirs)
            /\ database' = Closed
            /\ todo' = {}
            /\ pc' = "done"
       ELSE /\ raised' = FALSE
            /\ wrote' = FALSE
            /\ database' = [open |-> TRUE, map |-> Load(dbfile)]
            /\ todo' = Keys(Load(dbfile))
            /\ pc' = "cleanup"
            /\ UNCHANGED dbfile
    /\ UNCHANGED aux
    /\ UNCHANGED <<src, dst, dirs, envs>>

\* a clean-up that deletes the record of a missing source file whether or
\* not the destination file is still there
CleanupItem_forgets(in_filename, answer, unlink_ok) ==
    /\ pc = "cleanup"
    /\ in_filename \in todo
    /\ args.batch => answer
    /\ ~(src[in_filename] = Absent /\ answer) => unlink_ok
    /\ todo' = todo \ {in_filename}
    /\ LET out_filename == database.map[in_filename][1]
           unlinked == /\ src[in_filename] = Absent
                       /\ out_filename \in dst
                       /\ args.batch \/ answer
                       /\ unlink_ok
       IN  /\ dst' = IF unlinked THEN dst \ {out_filename} ELSE dst
           /\ removed' = IF unlinked THEN removed \cup {out_filename} ELSE removed
           /\ unlink_failed' =
                  IF /\ src[in_filename] = Absent
                     /\ out_filename \in dst
                     /\ args.batch \/ answer
                     /\ ~unlink_ok
                  THEN unlink_failed \cup {out_filename}
                  ELSE unlink_failed
           /\ database' = IF src[in_filename] = Absent
                          THEN [database EXCEPT !.map = delete_item(@, in_filename)]
                          ELSE database
    /\ UNCHANGED aux
    /\ UNCHANGED <<src, dirs, dbfile, args, pc, st, applied, file_hashes, file0,
                   early, raised, wrote, prev, changed, envs>>

\* _clean_up_missing_files, one record of list(get_items()).  answer is what
\* query_yes_no returns, unlink_ok whether out_filepath.unlink() succeeds; in
\* batch mode nothing is asked, and an input the code does not read is TRUE.
CleanupItem(in_filename, answer, unlink_ok) ==
    /\ pc = "cleanup"
    /\ in_filename \in todo
    /\ args.batch => answer
    /\ ~(src[in_filename] = Absent /\ answer) => unlink_ok
    /\ todo' = todo \ {in_filename}
    /\ LET out_filename == database.map[in_filename][1]
           unlinked == /\ src[in_filename] = Absent
                       /\ out_filename \in dst
                       /\ args.batch \/ answer
                       /\ unlink_ok
           dst_after == IF unlinked THEN dst \ {out_filename} ELSE dst
           deleted == src[in_filename] = Absent /\ out_filename \notin dst_after
       IN  /\ dst' = dst_after
           /\ removed' = IF unlinked THEN removed \cup {out_filename} ELSE removed
           /\ unlink_failed' =
                  IF /\ src[in_filename] = Absent
                     /\ out_filename \in dst
                     /\ args.batch \/ answer
                     /\ ~unlink_ok
                  THEN unlink_failed \cup {out_filename}
                  ELSE unlink_failed
           /\ database' = IF deleted
                          THEN [database EXCEPT !.map = delete_item(@, in_filename)]
                          ELSE database
    /\ UNCHANGED aux
    /\ UNCHANGED <<src, dirs, dbfile, args, pc, st, applied, file_hashes, file0,
                   early, raised, wrote, prev, changed, envs>>

\* a sync_audio that starts the tasks before every record was examined
Prune_unfinished ==
    /\ pc = "cleanup"
    /\ dirs' = dirs \ delete_empty_directories(Root, dirs, DestFiles(dst, dbfile))
    /\ st' = [f \in SrcUniverse |->
                IF f \in list_all_files(src) THEN "new" ELSE "none"]
    /\ pc' = "sched"
    /\ UNCHANGED aux
    /\ UNCHANGED <<src, dst, dbfile, database, args, todo, applied, file_hashes,
                   removed, file0, unlink_failed, early, raised, wrote, prev,
                   changed, envs>>

\* a clean-up that stores the hash database when it ends
Prune_flushes ==
    /\ pc = "cleanup"
    /\ todo = {}
    /\ dirs' = dirs \ delete_empty_directories(Root, dirs, DestFiles(dst, dbfile))
    /\ st' = [f \in SrcUniverse |->
                IF f \in list_all_files(src) THEN "new" ELSE "none"]
    /\ pc' = "sched"
    /\ UNCHANGED aux
    /\ dbfile' = Exit(dbfile, database.map, dirs)
    /\ UNCHANGED <<src, dst, database, args, todo, applied, file_hashes,
                   removed, file0, unlink_failed, early, raised, wrote, prev,
                   changed, envs>>

\* the end of _clean_up_missing_files: util.delete_empty_directories(audio_dest),
\* then sync_audio builds the file tasks
Prune ==
    /\ pc = "cleanup"
    /\ todo = {}
    /\ dirs' = dirs \ delete_empty_directories(Root, dirs, DestFiles(dst, dbfile))
    /\ st' = [f \in SrcUniverse |->
                IF f \in list_all_files(src) THEN "new" ELSE "none"]
    /\ pc' = "sched"
    /\ UNCHANGED aux
    /\ UNCHANGED <<src, dst, dbfile, database, args, todo, applied, file_hashes,
                   removed, file0, unlink_failed, early, raised, wrote, prev,
                   changed, envs>>

\* a result that holds the destination name as the action gave it
Result_unsanitized(f) ==
    <<f, get_out_filename(_get_file_actions(args, f)[1], f), calculate_hash(src[f])>>

\* the result _process_file returns for a task whose actions all succeeded
Result(f) == <<f, OutFilename(args, f), calculate_hash(src[f])>>

\* the condition without the test that the destination file exists
NeedsProcessing_ignores_dest(a, db, files, f) ==
    \/ a.force
    \/ get_item(db, f)[2] = None
    \/ get_item(db, f)[2] # calculate_hash(src[f])

\* the condition without the comparison of the two hashes
NeedsProcessing_ignores_hash(a, db, files, f) ==
    \/ a.force
    \/ get_item(db, f)[2] = None
    \/ OutFilename(a, f) \notin files

\* the condition that never finds a file up to date
NeedsProcessing_always(a, db, files, f) == TRUE

\* the condition of _process_file under which the actions are executed
NeedsProcessing(a, db, files, f) ==
    LET hash_current == calculate_hash(src[f])
        hash_database == get_item(db, f)[2]
    IN  \/ a.force
        \/ hash_database = None
        \/ hash_database # hash_current
        \/ OutFilename(a, f) \notin files

Running == {f \in SrcUniverse : st[f] = "run"}

Aborted == \E f \in SrcUniverse : st[f] = "exc"

\* a _process_file that returns a result for a task without actions
TaskStart_returns_skipped(f) ==
    /\ pc = "sched"
    /\ st[f] = "new"
    /\ Cardinality(Running) < args.jobs
    /\ args.jobs = 1 => ~Aborted
    /\ IF _get_file_actions(args, f) = <<>>
       THEN /\ st' = [st EXCEPT ![f] = "skip"]
            /\ file_hashes' = IF args.jobs = 1
                              THEN file_hashes \cup
                                      {<<f, None, calculate_hash(src[f])>>}
                              ELSE file_hashes
            /\ UNCHANGED dirs
       ELSE IF NeedsProcessing(args, database.map, dst, f)
            THEN /\ dirs' = dirs \cup Parents(OutFilename(args, f))
                 /\ st' = [st EXCEPT ![f] = "run"]
                 /\ UNCHANGED file_hashes
            ELSE /\ st' = [st EXCEPT ![f] = "uptodate"]
                 /\ UNCHANGED <<dirs, file_hashes>>
    /\ UNCHANGED aux
    /\ UNCHANGED <<src, dst, dbfile, database, args, pc, todo, applied,
                   removed, file0, unlink_failed, early, raised,
                   wrote, prev, changed, envs>>

\* _process_file up to the decision.  With jobs = 1 the tasks run one after
\* the other and an exception ends the loop; Pool.map keeps handing tasks to
\* its processes, jobs at a time, also after a task has raised.
TaskStart(f) ==
    /\ pc = "sched"
    /\ st[f] = "new"
    /\ Cardinality(Running) < args.jobs
    /\ args.jobs = 1 => ~Aborted
    /\ IF _get_file_actions(args, f) = <<>>
       THEN /\ st' = [st EXCEPT ![f] = "skip"]
            /\ UNCHANGED dirs
       ELSE IF NeedsProcessing(args, database.map, dst, f)
            THEN \* out_filepath.parent.mkdir(parents=True, exist_ok=True)
                 /\ dirs' = dirs \cup Parents(OutFilename(args, f))
                 /\ st' = [st EXCEPT ![f] = "run"]
            ELSE /\ st' = [st EXCEPT ![f] = "uptodate"]
                 /\ UNCHANGED dirs
    /\ UNCHANGED aux
    /\ UNCHANGED <<src, dst, dbfile, database, args, pc, todo, applied,
                   file_hashes, removed, file0, unlink_failed, early, raised,
                   wrote, prev, changed, envs>>

\* a _process_file that stores its result in the hash database itself
ActionStep_adds_item(f, outcome, written) ==
    /\ pc = "sched"
    /\ st[f] = "run"
    /\ outcome = "ok" => written
    /\ LET actions == _get_file_actions(args, f)
           last == applied[f] + 1 = Len(actions)
       IN  /\ applied' = [applied EXCEPT ![f] = @ + 1]
           /\ dst' = IF outcome = "ok" \/ written
                     THEN dst \cup {OutFilename(args, f)}
                     ELSE dst
           /\ st' = [st EXCEPT ![f] =
                        IF outcome = "ok"
                        THEN IF last THEN "ok" ELSE "run"
                        ELSE outcome]
           /\ file_hashes' = IF outcome = "ok" /\ last /\ args.jobs = 1
                             THEN file_hashes \cup {Result(f)}
                             ELSE file_hashes
           /\ database' = IF outcome = "ok" /\ last
                          THEN [database EXCEPT !.map =
                                   add_item(@, f, OutFilename(args, f),
                                            calculate_hash(src[f]))]
                          ELSE database
           /\ early' = IF outcome = "exc" /\ ~Aborted
                       THEN {g \in SrcUniverse : st[g] = "ok"}
                       ELSE early
    /\ UNCHANGED aux
    /\ UNCHANGED <<src, dirs, dbfile, args, pc, todo, removed,
                   file0, unlink_failed, raised, wrote, prev, changed, envs>>

\* an execute loop that returns the result of a task also after an IOError
ActionStep_returns_failed(f, outcome, written) ==
    /\ pc = "sched"
    /\ st[f] = "run"
    /\ outcome = "ok" => written
    /\ applied' = [applied EXCEPT ![f] = @ + 1]
    /\ dst' = IF outcome = "ok" \/ written
              THEN dst \cup {OutFilename(args, f)}
              ELSE dst
    /\ st' = [st EXCEPT ![f] =
                 IF outcome = "ok"
                 THEN IF applied[f] + 1 = Len(_get_file_actions(args, f))
                      THEN "ok" ELSE "run"
                 ELSE outcome]
    /\ file_hashes' = IF /\ args.jobs = 1
                         /\ \/ outcome = "ioerr"
                            \/ /\ outcome = "ok"
                               /\ applied[f] + 1 = Len(_get_file_actions(args, f))
                      THEN file_hashes \cup {Result(f)}
                      ELSE file_hashes
    /\ early' = IF outcome = "exc" /\ ~Aborted
                THEN {g \in SrcUniverse : st[g] = "ok"}
                ELSE early
    /\ UNCHANGED aux
    /\ UNCHANGED <<src, dirs, dbfile, database, args, pc, todo, removed,
                   file0, unlink_failed, raised, wrote, prev, changed, envs>>

\* action.execute(in_filepath, out_filepath) for the next action of the task:
\* it succeeds, raises an IOError or raises another exception.  An action
\* that raises may have created the destination file before (written); one
\* that succeeds has.
ActionStep(f, outcome, written) ==
    /\ pc = "sched"
    /\ st[f] = "run"
    /\ outcome = "ok" => written
    /\ LET actions == _get_file_actions(args, f)
           last == applied[f] + 1 = Len(actions)
       IN  /\ applied' = [applied EXCEPT ![f] = @ + 1]
           /\ dst' = IF outcome = "ok" \/ written
                     THEN dst \cup {OutFilename(args, f)}
                     ELSE dst
           /\ st' = [st EXCEPT ![f] =
                        IF outcome = "ok"
                        THEN IF last THEN "ok" ELSE "run"
                        ELSE outcome]
           /\ file_hashes' = IF outcome = "ok" /\ last /\ args.jobs = 1
                             THEN file_hashes \cup {Result(f)}
                             ELSE file_hashes
           /\ early' = IF outcome = "exc" /\ ~Aborted
                       THEN {g \in SrcUniverse : st[g] = "ok"}
                       ELSE early
    /\ UNCHANGED aux
    /\ UNCHANGED <<src, dirs, dbfile, database, args, pc, todo, removed,
                   file0, unlink_failed, raised, wrote, prev, changed, envs>>

\* for file_hash in filter(None, file_hashes): add_item(*file_hash)
RECURSIVE AddAll(_, _)
AddAll(db, results) ==
    IF results = {}
    THEN db
    ELSE LET r == CHOOSE x \in results : TRUE
         IN  AddAll(add_item(db, r[1], r[2], r[3]), results \ {r})

\* what sync_audio holds in file_hashes after the try block: with a pool the
\* list is assigned only when pool.map returns, which it does not when a
\* task raised
Collected ==
    IF args.jobs = 1
    THEN file_hashes
    ELSE IF Aborted
         THEN {}
         ELSE {Result(f) : f \in {g \in SrcUniverse : st[g] = "ok"}}

\* a sync_audio without the except clause: the exception of a task leaves
\* sync_audio, through __exit__, before any result is added
Commit_reraises ==
    /\ pc = "sched"
    /\ Running = {}
    /\ \/ \A f \in SrcUniverse : st[f] # "new"
       \/ args.jobs = 1 /\ Aborted
    /\ file_hashes' = IF Aborted THEN {} ELSE Collected
    /\ dbfile' = Exit(dbfile,
                      AddAll(database.map, IF Aborted THEN {} ELSE Collected),
                      dirs)
    /\ wrote' = CanWrite(dirs)
    /\ raised' = Aborted
    /\ database' = Closed
    /\ pc' = "done"
    /\ UNCHANGED aux
    /\ UNCHANGED <<src, dst, dirs, args, todo, st, applied, removed, file0,
                   unlink_failed, early, prev, changed, envs>>

\* the end of sync_audio: the results are added and __exit__ stores the file
Commit ==
    /\ pc = "sched"
    /\ Running = {}
    /\ \/ \A f \in SrcUniverse : st[f] # "new"
       \/ args.jobs = 1 /\ Aborted
    /\ file_hashes' = Collected
    /\ dbfile' = Exit(dbfile, AddAll(database.map, Collected), dirs)
    /\ wrote' = CanWrite(dirs)
    /\ database' = Closed
    /\ pc' = "done"
    /\ UNCHANGED aux
    /\ UNCHANGED <<src, dst, dirs, args, todo, st, applied, removed, file0,
                   unlink_failed, early, raised, prev, changed, envs>>

JobsChoice == {1, 2}

Next ==
    \/ \E f \in SrcUniverse : EnvModify(f)
    \/ \E f \in SrcUniverse : EnvRemoveSrc(f)
    \/ \E f \in SrcUniverse : EnvAddSrc(f)
    \/ \E d \in dst : EnvRemoveDst(d)
    \/ \E force, batch \in BOOLEAN, jobs \in JobsChoice, mode \in Modes :
          StartRun(force, batch, jobs, mode)
    \/ \E k \in SrcUniverse, answer, unlink_ok \in BOOLEAN :
          CleanupItem(k, answer, unlink_ok)
    \/ Prune
    \/ \E f \in SrcUniverse : TaskStart(f)
    \/ \E f \in SrcUniverse, outcome \in {"ok", "ioerr", "exc"}, written \in BOOLEAN :
          ActionStep(f, outcome, written)
    \/ Commit

Spec == Init /\ [][Next]_vars

(* ---------------------------------------------------------------------- *)
(* Vocabulary of the properties                                            *)
(* ---------------------------------------------------------------------- *)

\* the mapping __enter__ loaded when the invocation started
loaded == Load(file0)

\* the mapping of the store: in memory while it is open, on disk otherwise
StoreNow == IF database.open THEN database.map ELSE Load(dbfile)

\* the invocation has just ended: the user has changed nothing since
RunEnd == pc = "done" /\ ~changed.src /\ ~changed.dst

\* the files of the invocation: one task each
Tasks == list_all_files(src)

HasActions(f) == _get_file_actions(args, f) # <<>>

\* the record a successful task leaves in the store
NewRecord(f) == <<OutFilename(args, f), calculate_hash(src[f])>>

Sanitized(p) == \A i \in DOMAIN p : p[i] \notin Fat32Illegal

\* the records whose source file no longer exists when the invocation starts
Orphans == {k \in Keys(loaded) : src[k] = Absent}

\* the clean-up has ended and no task has started, or the invocation was
\* aborted before the clean-up
CleanupEnd ==
    \/ pc = "sched" /\ \A f \in SrcUniverse : st[f] \in {"new", "none"}
    \/ RunEnd /\ raised

\* out existed in the destination when the invocation started (the clean-up
\* only ever removes files)
Existed(out) == out \in dst \cup removed

\* the results of the batch reached sync_audio: always with jobs = 1, with a
\* pool only when no task raised
ResultsCollected == args.jobs = 1 \/ ~Aborted

(* ---------------------------------------------------------------------- *)
(* C1                                                                      *)
(* ---------------------------------------------------------------------- *)

Idempotent ==
    /\ \A f \in SrcUniverse : applied[f] = 0
    /\ \A f \in Tasks : HasActions(f) => st[f] = "uptodate"
    /\ removed = {}
    /\ Load(dbfile) = loaded

\* C1, as stated: after an invocation in which no pipeline failed and the
\* store was written, a second invocation without force over unchanged trees
\* executes no action, unlinks no destination file and leaves the mapping of
\* the store as it was.
C1_Original == (RunEnd /\ prev.settled /\ ~args.force) => Idempotent

\* C1, amended: the same, provided the store the first invocation wrote holds
\* no record whose source file is missing (the first invocation left no
\* orphan behind because a removal was declined or failed).
C1_Idempotence ==
    (RunEnd /\ prev.settled /\ ~args.force /\ Orphans = {}) => Idempotent

\* C1, witness: a second invocation has ended in which a task was found up
\* to date.
C1_Witness ==
    /\ RunEnd /\ prev.settled /\ ~args.force /\ Orphans = {}
    /\ \E f \in Tasks : st[f] = "uptodate"

(* ---------------------------------------------------------------------- *)
(* C2                                                                      *)
(* ---------------------------------------------------------------------- *)

\* C2: a task with actions has its actions executed exactly when force is
\* set, the store has no record of the file, the recorded hash differs from
\* the current one or the destination file does not exist; otherwise it is
\* up to date: no action is executed, the destination is not written and no
\* result is returned.
C2_Decision ==
    /\ [][\A f \in SrcUniverse :
            (pc = "sched" /\ st[f] = "new" /\ st'[f] # "new" /\ HasActions(f)) =>
                /\ st'[f] = "run" <=>
                      \/ args.force
                      \/ database.map[f] = None
                      \/ database.map[f][2] # <<"md5", src[f].head>>
                      \/ correct_path_fat32(
                            get_out_filename(_get_file_actions(args, f)[1], f))
                         \notin dst
                /\ st'[f] # "run" =>
                      st'[f] = "uptodate" /\ dst' = dst /\ file_hashes' = file_hashes
         ]_vars
    /\ [](\A f \in SrcUniverse :
            (st[f] = "uptodate" /\ (pc = "sched" \/ RunEnd)) =>
                /\ applied[f] = 0
                /\ \A r \in file_hashes : r[1] # f
                /\ StoreNow[f] = loaded[f])

\* C2, witness: without force, one task is up to date while the actions of
\* another are being executed.
C2_Witness ==
    /\ pc = "sched" /\ ~args.force
    /\ \E f, g \in SrcUniverse : st[f] = "uptodate" /\ st[g] = "run"

(* ---------------------------------------------------------------------- *)
(* C3                                                                      *)
(* ---------------------------------------------------------------------- *)

\* a file with actions whose hash differs from the recorded one, or any file
\* with actions when force is set
Changed(f) ==
    /\ f \in Tasks
    /\ HasActions(f)
    /\ \/ args.force
       \/ loaded[f] # None /\ loaded[f][2] # calculate_hash(src[f])

\* C3, as stated: the invocation executes the actions of every such file and
\* ends with the new hash and the sanitized destination in its record.
C3_Original ==
    RunEnd => \A f \in SrcUniverse :
        Changed(f) => applied[f] > 0 /\ Load(dbfile)[f] = NewRecord(f)

\* C3, amended: the invocation executes the actions of every such file unless
\* an exception of an earlier task has ended the batch (jobs = 1); the record
\* holds the new hash and the sanitized destination when all actions of the
\* file succeeded and the results of the batch were collected, and is left as
\* it was otherwise.
C3_ChangeDetection ==
    RunEnd => \A f \in SrcUniverse :
        Changed(f) =>
            /\ applied[f] > 0 \/ (args.jobs = 1 /\ Aborted /\ st[f] = "new")
            /\ (st[f] = "ok" /\ ResultsCollected) =>
                  /\ wrote
                  /\ Load(dbfile)[f] = NewRecord(f)
                  /\ Sanitized(Load(dbfile)[f][1])
            /\ ~(st[f] = "ok" /\ ResultsCollected) => Load(dbfile)[f] = loaded[f]

\* C3, witness: without force, a file whose hash differs from the recorded
\* one has been processed and its record replaced.
C3_Witness ==
    /\ RunEnd /\ ~args.force
    /\ \E f \in SrcUniverse :
          /\ Changed(f) /\ st[f] = "ok"
          /\ loaded[f] # None
          /\ Load(dbfile)[f] = NewRecord(f)
          /\ Load(dbfile)[f] # loaded[f]

(* ---------------------------------------------------------------------- *)
(* C4                                                                      *)
(* ---------------------------------------------------------------------- *)

C5_Reconciler ==
    [][(pc = "cleanup" /\ todo' # todo) => \A k \in todo \ todo' :
          LET out == database.map[k][1]
          IN  /\ database'.map[k] = None <=> (src[k] = Absent /\ out \notin dst')
              /\ database'.map[k] # None => database'.map[k] = database.map[k]
              /\ (src[k] = Absent /\ out \in dst) =>
                    \/ out \notin dst'
                    \/ database'.map[k] = database.map[k] /\ dst' = dst
              /\ \A j \in SrcUniverse \ {k} : database'.map[j] = database.map[j]
              /\ dst' \subseteq dst
              /\ dst' # dst => (dst \ dst' = {out} /\ src[k] = Absent)
      ]_vars

\* C5, witness: in interactive mode the removal was declined: the clean-up
\* has ended, the destination file of a missing source file exists and its
\* record is unchanged.
C5_Witness ==
    /\ pc = "sched" /\ ~args.batch /\ unlink_failed = {}
    /\ \A f \in SrcUniverse : st[f] \in {"new", "none"}
    /\ \E k \in Orphans : loaded[k][1] \in dst /\ database.map[k] = loaded[k]

(* ---------------------------------------------------------------------- *)
(* C6                                                                      *)
(* ---------------------------------------------------------------------- *)

\* C6, as stated: when the source root has no files, sync_audio raises and
\* nothing below the destination root, the store file included, is created,
\* rewritten or removed.
C6_Original ==
    (RunEnd /\ raised) => (dbfile = file0 /\ ~wrote /\ removed = {})

(* ---------------------------------------------------------------------- *)
(* C7                                                                      *)
(* ---------------------------------------------------------------------- *)

\* C7: when an action of a file raises an IOError, no further action of the
\* file is executed, no result is returned for it, its record stays as it
\* was loaded, and the batch goes on: the failure changes no other task, and
\* in a batch that no unexpected exception ends every other task is
\* processed and the result of every task that succeeded is in the store.
C7_IoFailure ==
    /\ [](\A f \in SrcUniverse :
            (st[f] = "ioerr" /\ (pc = "sched" \/ RunEnd)) =>
                /\ \A r \in file_hashes : r[1] # f
                /\ StoreNow[f] = loaded[f]
                /\ (RunEnd /\ ~Aborted) =>
                      \A g \in Tasks \ {f} :
                          /\ st[g] \in {"skip", "uptodate", "ok", "ioerr"}
                          /\ st[g] = "ok" =>
                                /\ <<g, OutFilename(args, g), calculate_hash(src[g])>>
                                      \in file_hashes
                                /\ wrote
                                /\ dbfile.map[g] = NewRecord(g))
    /\ [][\A f \in SrcUniverse :
            /\ (st[f] = "ioerr" /\ pc' # "cleanup" /\ ~raised') =>
                  st'[f] = "ioerr" /\ applied'[f] = applied[f]
            /\ (st[f] = "run" /\ st'[f] = "ioerr") =>
                  /\ pc' = "sched"
                  /\ applied'[f] <= Len(_get_file_actions(args, f))
                  /\ file_hashes' = file_hashes
                  /\ database' = database
                  /\ \A g \in SrcUniverse \ {f} : st'[g] = st[g]
         ]_vars

\* C7, witness: the first of the two actions of a file raised an IOError,
\* the second was not executed, and another task of the batch has succeeded
\* and its result is in the store.
C7_Witness ==
    /\ RunEnd
    /\ \E f, g \in SrcUniverse :
          /\ st[f] = "ioerr" /\ applied[f] = 1
          /\ Len(_get_file_actions(args, f)) = 2
          /\ st[g] = "ok" /\ dbfile.map[g] = NewRecord(g)

(* ---------------------------------------------------------------------- *)
(* C8                                                                      *)
(* ---------------------------------------------------------------------- *)

\* C8, as stated: a file whose pipeline ended in an IOError in the
\* invocation before has its actions executed again by the next invocation
\* over the unchanged source, without force (here even only for a batch that
\* no exception ends).
C8_Original ==
    (RunEnd /\ ~args.force /\ ~Aborted) =>
        \A f \in prev.failed : applied[f] > 0

(* ---------------------------------------------------------------------- *)
(* C9                                                                      *)
(* ---------------------------------------------------------------------- *)

\* C9, as stated: when a task raised an unexpected exception, the result of
\* every task that had succeeded before is in the store file at the end,
\* with jobs = 1 and with a pool.
C9_Original ==
    (RunEnd /\ Aborted) =>
        \A f \in early : wrote /\ dbfile.map[f] = NewRecord(f)

(* ---------------------------------------------------------------------- *)
(* C10                                                                     *)
(* ---------------------------------------------------------------------- *)

\* C10: an unexpected exception of an action does not leave sync_audio:
\* sync_audio returns, the store is closed and the store file is written,
\* with every result that was collected and no other change to the records
\* than the deletions of the clean-up.
C10_ExceptionContained ==
    (RunEnd /\ Aborted) =>
        /\ ~raised
        /\ ~database.open
        /\ wrote
        /\ dbfile.exists
        /\ \A r \in file_hashes : dbfile.map[r[1]] = <<r[2], r[3]>>
        /\ \A k \in SrcUniverse :
              (\A r \in file_hashes : r[1] # k) => dbfile.map[k] \in {loaded[k], None}

\* C10, witness: an invocation in which an action raised an unexpected
\* exception has ended and the store file was written.
C10_Witness == RunEnd /\ Aborted /\ wrote /\ dbfile.exists

(* ---------------------------------------------------------------------- *)
(* C11                                                                     *)
(* ---------------------------------------------------------------------- *)

\* C11: while the tasks are processed (from the end of the clean-up until
\* the last task has returned) neither the mapping in memory nor the store
\* file changes, whatever the interleaving of the workers; a record is only
\* ever added by the step of sync_audio that follows the last task, and it
\* is a result that sync_audio has collected.
C11_WorkersReadOnly ==
    [][/\ (pc = "sched" /\ pc' = "sched") =>
              database' = database /\ dbfile' = dbfile
       /\ \A k \in SrcUniverse :
              (dbfile'.map[k] # dbfile.map[k] /\ dbfile'.map[k] # None) =>
                  /\ pc = "sched" /\ pc' = "done"
                  /\ Running = {}
                  /\ <<k, dbfile'.map[k][1], dbfile'.map[k][2]>> \in file_hashes'
       /\ \A k \in SrcUniverse :
              (database'.open /\ database'.map[k] # None) =>
                  database'.map[k] = Load(dbfile)[k]
      ]_vars

\* C11, witness: with a pool, one task has succeeded while another is still
\* running, and the store does not hold the result of the first yet.
C11_Witness ==
    /\ pc = "sched" /\ args.jobs > 1
    /\ \E f, g \in SrcUniverse :
          /\ st[f] = "ok" /\ st[g] = "run"
          /\ database.map[f] # NewRecord(f)

(* ---------------------------------------------------------------------- *)
(* C12                                                                     *)
(* ---------------------------------------------------------------------- *)

\* C12, as stated: two different files of a run that both have actions have
\* different destination paths, so that no two tasks in execution at the
\* same time write the same destination file.
C12_Original ==
    pc = "sched" =>
        \A f, g \in Running :
            f # g => OutFilename(args, f) # OutFilename(args, g)

(* ---------------------------------------------------------------------- *)
(* One invocation over given trees, with the order of the listing          *)
(* ---------------------------------------------------------------------- *)

\* the destination of a file that an invocation in copy mode has synchronised
CopyOut(f) == correct_path_fat32(get_out_filename("Copy", f))

\* the records an earlier invocation, in mode auto or copy, can have left
RecordsOf(f) ==
    IF _get_file_actions(NoArgs, f) = <<>>
    THEN {None}
    ELSE {None,
          <<OutFilename(NoArgs, f), calculate_hash(Content1)>>,
          <<CopyOut(f), calculate_hash(Content1)>>}

RECURSIVE Perms(_)
\* the orders in which os.walk can list the files S
Perms(S) ==
    IF S = {}
    THEN {<<>>}
    ELSE UNION {{<<x>> \o q : q \in Perms(S \ {x})} : x \in S}

\* the trees and the store file as earlier invocations can have left them,
\* and the order in which list_all_files lists the source files
InitPool ==
    /\ src \in {t \in [SrcUniverse -> {Absent, Content1}] :
                    t[FA] = Content1 /\ t[FB] = Content1}
    /\ dst \in SUBSET ({OutFilename(NoArgs, f) : f \in {FA, FB}}
                          \cup {CopyOut(f) : f \in {FA, FB}})
    /\ dirs = {Root} \cup UNION {Parents(d) : d \in dst}
    /\ dbfile \in {NoFile} \cup
                  {[exists |-> TRUE, map |-> m] :
                       m \in {n \in [SrcUniverse -> UNION {RecordsOf(f) : f \in SrcUniverse}] :
                                \A f \in SrcUniverse : n[f] \in RecordsOf(f)}}
    /\ database = Closed
    /\ args = NoArgs
    /\ pc = "idle"
    /\ todo = {}
    /\ st = [f \in SrcUniverse |-> "none"]
    /\ applied = [f \in SrcUniverse |-> 0]
    /\ file_hashes = {}
    /\ removed = {}
    /\ file0 = NoFile
    /\ unlink_failed = {}
    /\ early = {}
    /\ raised = FALSE
    /\ wrote = FALSE
    /\ prev = NoPrev
    /\ changed = NoChange
    /\ envs = 0
    /\ file_tasks \in Perms(list_all_files(src))
    /\ NoPlaylists
    /\ dst0 = dst
    /\ ret = NoCall
    /\ atclose = NeverClosed
    /\ given = <<>>
    /\ result = NoResult

\* file_tasks is processed from its first element on: the for loop of
\* sync_audio, and the order in which pool.map hands the tasks to the workers
InOrder(f) ==
    \A i, j \in DOMAIN file_tasks :
        (i < j /\ file_tasks[j] = f) => st[file_tasks[i]] # "new"

NextPool ==
    \/ \E force, batch \in BOOLEAN, jobs \in JobsChoice, mode \in Modes :
          pc = "idle" /\ StartRun(force, batch, jobs, mode)
    \/ \E k \in SrcUniverse, answer, unlink_ok \in BOOLEAN :
          CleanupItem(k, answer, unlink_ok)
    \/ Prune
    \/ \E f \in SrcUniverse : InOrder(f) /\ TaskStart(f)
    \/ \E f \in SrcUniverse, outcome \in {"ok", "ioerr", "exc"}, written \in BOOLEAN :
          ActionStep(f, outcome, written)
    \/ Commit

SpecPool == InitPool /\ [][NextPool]_vars

RECURSIVE SeqRun(_, _, _, _)
\* the for loop of sync_audio (jobs = 1) over file_tasks from position i on,
\* when no action raises: the destination files and the results it ends with
SeqRun(tasks, i, files, results) ==
    IF i > Len(tasks)
    THEN [dst |-> files, file_hashes |-> results]
    ELSE LET f == tasks[i]
         IN  IF /\ _get_file_actions(args, f) # <<>>
                /\ NeedsProcessing(args, database.map, files, f)
             THEN SeqRun(tasks, i + 1, files \cup {OutFilename(args, f)},
                         results \cup {Result(f)})
             ELSE SeqRun(tasks, i + 1, files, results)

(* ---------------------------------------------------------------------- *)
(* C13                                                                     *)
(* ---------------------------------------------------------------------- *)

\* the last task has returned and no action has raised
NoFailure == \A f \in SrcUniverse : st[f] \in {"none", "skip", "uptodate", "ok"}

\* sync_audio ends as the for loop over the same trees, store and listing
\* would have ended it
EndsAsSequential ==
    LET seq == SeqRun(file_tasks, 1, dst0 \ removed, {})
    IN  /\ dst' = seq.dst
        /\ dbfile' = Exit(dbfile, AddAll(database.map, seq.file_hashes), dirs)

\* C13, as stated: when no action fails, an invocation with a pool ends with
\* the same destination files and the same store mapping as the invocation
\* with jobs = 1 over the same trees and store, under every interleaving.
C13_Original ==
    [][(pc = "sched" /\ pc' = "done" /\ args.jobs > 1 /\ NoFailure)
           => EndsAsSequential]_vars

\* the for loop itself ends as SeqRun computes
C13_Sequential ==
    [][(pc = "sched" /\ pc' = "done" /\ args.jobs = 1 /\ NoFailure)
           => EndsAsSequential]_vars

(* ---------------------------------------------------------------------- *)
(* HashDb by itself: the methods in any order                              *)
(* ---------------------------------------------------------------------- *)

\* an argument is a str or a pathlib.Path; str() gives its text
Typed == {"str", "Path"}

str(x) == x[2]

\* the keys, destinations and hashes the methods are called with
HKeys == {FA, FB}

HOuts == {OutFilename(NoArgs, f) : f \in HKeys} \cup {CopyOut(FA)}

HHashes == {calculate_hash(Content1)}

\* get_items(): the (in_filename, out_filename, hash) tuples
get_items(db) == {<<k, db[k][1], db[k][2]>> : k \in Keys(db)}

\* the part of the state that only sync_audio uses
audio == <<src, dst, args, pc, todo, st, applied, file_hashes, removed, file0,
           unlink_failed, early, raised, wrote, prev, changed, envs,
           file_tasks, dst0, given, result, pvars>>

\* no invocation of sync_audio: empty trees, no store file, HashDb(path)
\* constructed
AudioIdle ==
    /\ src = [f \in SrcUniverse |-> Absent]
    /\ dst = {}
    /\ dirs = {Root}
    /\ dbfile = NoFile
    /\ database = Closed
    /\ args = NoArgs
    /\ pc = "idle"
    /\ todo = {}
    /\ st = [f \in SrcUniverse |-> "none"]
    /\ applied = [f \in SrcUniverse |-> 0]
    /\ file_hashes = {}
    /\ removed = {}
    /\ file0 = NoFile
    /\ unlink_failed = {}
    /\ early = {}
    /\ raised = FALSE
    /\ wrote = FALSE
    /\ prev = NoPrev
    /\ changed = NoChange
    /\ envs = 0

\* HashDb(path) on an empty, existing directory
InitHashDb == AudioIdle /\ NoAux

\* with hashdb: on entry
Enter ==
    /\ ~database.open
    /\ database' = [open |-> TRUE, map |-> Load(dbfile)]
    /\ ret' = Returned("__enter__", "none", <<None, None>>, {}, FALSE)
    /\ UNCHANGED <<dbfile, dirs, atclose, audio>>

\* an __exit__ that lets the IOError of open() leave it
ExitCall_raises ==
    /\ database.open
    /\ dbfile' = Exit(dbfile, database.map, dirs)
    /\ database' = Closed
    /\ atclose' = [closed |-> TRUE, map |-> database.map]
    /\ ret' = Returned("__exit__",
                       IF CanWrite(dirs) THEN "none" ELSE "IOError",
                       <<None, None>>, {}, CanWrite(dirs))
    /\ UNCHANGED <<dirs, audio>>

\* with hashdb: on exit
ExitCall ==
    /\ database.open
    /\ dbfile' = Exit(dbfile, database.map, dirs)
    /\ database' = Closed
    /\ atclose' = [closed |-> TRUE, map |-> database.map]
    /\ ret' = Returned("__exit__", "none", <<None, None>>, {}, CanWrite(dirs))
    /\ UNCHANGED <<dirs, audio>>

\* ensure_context_manager: the wrapper raises when _database is None
Raises(call) ==
    /\ ~database.open
    /\ ret' = Returned(call, "RuntimeError", <<None, None>>, {}, FALSE)
    /\ UNCHANGED <<database, dbfile, dirs, atclose, audio>>

GetItems ==
    \/ Raises("get_items")
    \/ /\ database.open
       /\ ret' = Returned("get_items", "none", <<None, None>>,
                          get_items(database.map), FALSE)
       /\ UNCHANGED <<database, dbfile, dirs, atclose, audio>>

GetItem(in_filename) ==
    \/ Raises("get_item")
    \/ /\ database.open
       /\ ret' = Returned("get_item", "none",
                          get_item(database.map, str(in_filename)), {}, FALSE)
       /\ UNCHANGED <<database, dbfile, dirs, atclose, audio>>

\* an add_item without the decorator
AddItem_unguarded(in_filename, out_filename, file_hash) ==
    /\ database' = [database EXCEPT !.map =
                       add_item(@, str(in_filename), str(out_filename), file_hash)]
    /\ ret' = Returned("add_item", "none", <<None, None>>, {}, FALSE)
    /\ UNCHANGED <<dbfile, dirs, atclose, audio>>

AddItem(in_filename, out_filename, file_hash) ==
    \/ Raises("add_item")
    \/ /\ database.open
       /\ database' = [database EXCEPT !.map =
                          add_item(@, str(in_filename), str(out_filename), file_hash)]
       /\ ret' = Returned("add_item", "none", <<None, None>>, {}, FALSE)
       /\ UNCHANGED <<dbfile, dirs, atclose, audio>>

\* del self._database[str(in_filename)] raises a KeyError for a missing key
DeleteItem(in_filename) ==
    \/ Raises("delete_item")
    \/ /\ database.open
       /\ database.map[str(in_filename)] = None
       /\ ret' = Returned("delete_item", "KeyError", <<None, None>>, {}, FALSE)
       /\ UNCHANGED <<database, dbfile, dirs, atclose, audio>>
    \/ /\ database.open
       /\ database.map[str(in_filename)] # None
       /\ database' = [database EXCEPT !.map = delete_item(@, str(in_filename))]
       /\ ret' = Returned("delete_item", "none", <<None, None>>, {}, FALSE)
       /\ UNCHANGED <<dbfile, dirs, atclose, audio>>

\* the directory of the store file is removed with all it holds
RemoveDir ==
    /\ Root \in dirs
    /\ dirs' = {}
    /\ dbfile' = NoFile
    /\ ret' = Returned("rmdir", "none", <<None, None>>, {}, FALSE)
    /\ UNCHANGED <<database, atclose, audio>>

\* the directory of the store file is created
MakeDir ==
    /\ Root \notin dirs
    /\ dirs' = {Root}
    /\ ret' = Returned("mkdir", "none", <<None, None>>, {}, FALSE)
    /\ UNCHANGED <<database, dbfile, atclose, audio>>

NextHashDb ==
    \/ Enter
    \/ ExitCall
    \/ GetItems
    \/ \E k \in HKeys, t \in Typed : GetItem(<<t, k>>)
    \/ \E k \in HKeys, o \in HOuts, h \in HHashes, t, u \in Typed :
          AddItem(<<t, k>>, <<u, o>>, h)
    \/ \E k \in HKeys, t \in Typed : DeleteItem(<<t, k>>)
    \/ RemoveDir
    \/ MakeDir

SpecHashDb == InitHashDb /\ [][NextHashDb]_vars

(* ---------------------------------------------------------------------- *)
(* C14                                                                     *)
(* ---------------------------------------------------------------------- *)

Methods == {"get_item", "get_items", "add_item", "delete_item"}

\* C14: get_item, get_items, add_item and delete_item raise a RuntimeError
\* when the HashDb is not open (before __enter__ or after __exit__) and then
\* change neither the mapping in memory nor the store file; while it is open
\* they never raise a RuntimeError.
C14_ContextManager ==
    [][ret'.call \in Methods =>
           /\ ~database.open =>
                 /\ ret'.exc = "RuntimeError"
                 /\ database' = database
                 /\ dbfile' = dbfile
           /\ database.open => ret'.exc # "RuntimeError"
      ]_vars

\* C14, witness: a method was called after __exit__ had stored records, and
\* raised.
C14_Witness ==
    /\ ret.call \in Methods /\ ret.exc = "RuntimeError"
    /\ atclose.closed
    /\ get_items(Load(dbfile)) # {}

(* ---------------------------------------------------------------------- *)
(* C15                                                                     *)
(* ---------------------------------------------------------------------- *)

\* the HashDb is opened right after it was closed
Reopened == ret.call = "__exit__" /\ ret'.call = "__enter__"

C16_WriteError ==
    [][/\ (ret'.call = "__exit__" /\ ~CanWrite(dirs)) =>
              /\ ret'.exc = "none"
              /\ ~ret'.stored
              /\ ~database'.open
              /\ dbfile' = dbfile
              /\ ~dbfile'.exists
       /\ (ret'.call = "__enter__" /\ ~dbfile.exists) =>
              /\ ret'.exc = "none"
              /\ database'.open
              /\ database'.map = EmptyDb
              /\ get_items(database'.map) = {}
      ]_vars

\* C16, witness: __exit__ has returned without having stored the records
\* that were in the mapping.
C16_Witness ==
    /\ ret.call = "__exit__" /\ ret.exc = "none" /\ ~ret.stored
    /\ get_items(atclose.map) # {}
    /\ ~dbfile.exists /\ ~database.open

(* ---------------------------------------------------------------------- *)
(* util.correct_path_fat32 by itself                                       *)
(* ---------------------------------------------------------------------- *)

\* the eight characters FAT32 does not allow
Fat32Eight == {"\\", ":", "*", "?", "\"", "<", ">", "|"}

\* the characters of the file names
Fat32Alphabet == Fat32Eight \cup {"/", "a", ".", "_"}

\* the file names of at most n characters
Names(n) == UNION {[1..k -> Fat32Alphabet] : k \in 0..n}

rest == <<src, dst, dirs, dbfile, database, args, pc, todo, st, applied,
          file_hashes, removed, file0, unlink_failed, early, raised, wrote,
          prev, changed, envs, file_tasks, dst0, ret, atclose, pvars>>

InitFat32 ==
    /\ AudioIdle
    /\ file_tasks = <<>>
    /\ dst0 = {}
    /\ ret = NoCall
    /\ atclose = NeverClosed
    /\ NoPlaylists
    /\ given \in Names(MaxLen)
    /\ result = NoResult

\* result = util.correct_path_fat32(given)
Sanitize ==
    /\ ~result.done
    /\ result' = [done |-> TRUE, value |-> correct_path_fat32(given)]
    /\ UNCHANGED <<given, rest>>

\* the result is the next argument
Resubmit ==
    /\ result.done
    /\ given' = result.value
    /\ result' = NoResult
    /\ UNCHANGED rest

NextFat32 == Sanitize \/ Resubmit

SpecFat32 == InitFat32 /\ [][NextFat32]_vars

(* ---------------------------------------------------------------------- *)
(* C17                                                                     *)
(* ---------------------------------------------------------------------- *)

\* C17: correct_path_fat32 replaces every occurrence of each of the eight
\* characters \ : * ? " < > | by _ and leaves every other character, the
\* separator / included, as it is: the result has the length of the
\* argument and none of the eight characters, and the function applied to
\* its result returns the result.
C17_Fat32 ==
    result.done =>
        /\ Len(result.value) = Len(given)
        /\ \A i \in DOMAIN given :
              /\ given[i] \in Fat32Eight => result.value[i] = "_"
              /\ given[i] \notin Fat32Eight => result.value[i] = given[i]
        /\ \A i \in DOMAIN result.value : result.value[i] \notin Fat32Eight
        /\ correct_path_fat32(result.value) = result.value

\* C17, witness: a name with two of the eight characters and a separator
\* has been sanitized.
C17_Witness ==
    /\ result.done
    /\ Cardinality({i \in DOMAIN given : given[i] \in Fat32Eight}) >= 2
    /\ \E i \in DOMAIN given : given[i] = "/" /\ result.value[i] = "/"

(* ---------------------------------------------------------------------- *)
(* util.list_all_files by itself: the walk                                 *)
(* ---------------------------------------------------------------------- *)

\* the text of a path from characters and names
Txt(a, b) == a \o <<"/">> \o b

\* files that can exist below the root: plain and hidden names, in plain,
\* hidden and nested directories
WalkUniverse ==
    {<<"a">>, <<".", "h">>,
     Txt(<<"d">>, <<"a">>), Txt(<<"d">>, <<".", "h">>),
     Txt(<<".", "g">>, <<"a">>), Txt(<<".", "g">>, <<".", "h">>),
     Txt(Txt(<<"d">>, <<"e">>), <<"a">>),
     Txt(Txt(<<"d">>, <<".", "g">>), <<"a">>),
     Txt(Txt(<<".", "g">>, <<"e">>), <<"a">>)}

\* the directories that hold the files, the root included
DirsOf(tree) == {Root} \cup UNION {Parents(f) : f \in tree}

RECURSIVE SetToSeq(_)
\* the elements of a set in the order in which the file system lists them
SetToSeq(S) ==
    IF S = {}
    THEN <<>>
    ELSE LET x == CHOOSE y \in S : TRUE
         IN  <<x>> \o SetToSeq(S \ {x})

\* os.path.relpath(dirpath, path)
relpath(dirpath) == IF dirpath = Root THEN <<".">> ELSE dirpath

\* os.path.normpath(os.path.join(relpath, filename))
normpath_join(rel, filename) ==
    IF rel = <<".">> THEN filename ELSE Txt(rel, filename)

RECURSIVE walk_unpruned(_, _)
\* a walk that filters the file names but descends into every directory
walk_unpruned(dirpath, tree) ==
    LET filenames == {Name(f) : f \in {g \in FilesIn(dirpath, tree) :
                                          Name(g)[1] # "."}}
        subdirs == DirsIn(dirpath, DirsOf(tree))
        here == [i \in DOMAIN SetToSeq(filenames) |->
                    normpath_join(relpath(dirpath), SetToSeq(filenames)[i])]
        RECURSIVE Below(_)
        Below(ds) == IF ds = <<>>
                     THEN <<>>
                     ELSE walk_unpruned(Head(ds), tree) \o Below(Tail(ds))
    IN  here \o Below(SetToSeq(subdirs))

RECURSIVE walk(_, _)
\* for dirpath, dirs, filenames in os.walk(path): the hidden directories are
\* taken out of dirs, so that os.walk does not descend into them, the hidden
\* names out of filenames, and the relative path of every file is appended
walk(dirpath, tree) ==
    LET filenames == {Name(f) : f \in {g \in FilesIn(dirpath, tree) :
                                          Name(g)[1] # "."}}
        subdirs == {d \in DirsIn(dirpath, DirsOf(tree)) : Name(d)[1] # "."}
        here == [i \in DOMAIN SetToSeq(filenames) |->
                    normpath_join(relpath(dirpath), SetToSeq(filenames)[i])]
        RECURSIVE Below(_)
        Below(ds) == IF ds = <<>>
                     THEN <<>>
                     ELSE walk(Head(ds), tree) \o Below(Tail(ds))
    IN  here \o Below(SetToSeq(subdirs))

InitWalk ==
    /\ AudioIdle
    /\ file_tasks = <<>>
    /\ dst0 = {}
    /\ ret = NoCall
    /\ atclose = NeverClosed
    /\ NoPlaylists
    /\ given \in SUBSET WalkUniverse
    /\ result = NoResult

\* result = list_all_files(path) for the tree given
ListFiles ==
    /\ ~result.done
    /\ result' = [done |-> TRUE, value |-> walk(Root, given)]
    /\ UNCHANGED <<given, rest>>

\* a file is created or removed, and the tree is listed again
Touch(f) ==
    /\ result.done
    /\ given' = IF f \in given THEN given \ {f} ELSE given \cup {f}
    /\ result' = NoResult
    /\ UNCHANGED rest

NextWalk == ListFiles \/ \E f \in WalkUniverse : Touch(f)

SpecWalk == InitWalk /\ [][NextWalk]_vars

(* ---------------------------------------------------------------------- *)
(* C20                                                                     *)
(* ---------------------------------------------------------------------- *)

RECURSIVE Components(_)
\* the names a relative path is made of
Components(p) ==
    IF LastSep(p) = 0
    THEN {p}
    ELSE {Name(p)} \cup Components(Parent(p))

\* C20: list_all_files returns exactly the files below the root of which no
\* name on the path, the file's own or a directory's, begins with ".", each
\* once, as the path relative to the root; a file in a hidden directory is
\* not returned.  This is the set the model of sync_audio lists.
C20_ListAllFiles ==
    result.done =>
        /\ {result.value[i] : i \in DOMAIN result.value}
              = {f \in given : \A c \in Components(f) : c[1] # "."}
        /\ \A i, j \in DOMAIN result.value :
              result.value[i] = result.value[j] => i = j
        /\ \A f \in given :
              (\E c \in Components(Parent(f)) : c # <<>> /\ c[1] = ".") =>
                  \A i \in DOMAIN result.value : result.value[i] # f
        /\ {result.value[i] : i \in DOMAIN result.value}
              = list_all_files([f \in WalkUniverse |->
                                   IF f \in given THEN Content1 ELSE Absent])

\* C20, witness: the tree has a plain file, a plain file in a hidden
\* directory and a plain file in a nested directory; two files are listed.
C20_Witness ==
    /\ result.done
    /\ Txt(<<".", "g">>, <<"a">>) \in given
    /\ Txt(Txt(<<"d">>, <<"e">>), <<"a">>) \in given
    /\ <<"a">> \in given
    /\ Len(result.value) = 2

(* ---------------------------------------------------------------------- *)
(* SyncMusic.sync_playlists                                                *)
(* ---------------------------------------------------------------------- *)

\* number of lines of a playlist
MaxLines == 2

\* str.startswith
startswith(line, prefix) ==
    /\ Len(prefix) <= Len(line)
    /\ SubSeq(line, 1, Len(prefix)) = prefix

\* a split that finds no separator
split1_none(text, sep) == <<text>>

\* a split whose second part is the whole text again
split1_keeps(text, sep) ==
    IF \E i \in DOMAIN text : text[i] = sep
    THEN <<<<>>, text>>
    ELSE <<text>>

\* str.split(sep, 1): the text before the first separator and the text
\* after it, or the text alone when it has no separator
split1(text, sep) ==
    IF \E i \in DOMAIN text : text[i] = sep
    THEN LET i == CHOOSE j \in DOMAIN text :
                      /\ text[j] = sep
                      /\ \A k \in 1..(j - 1) : text[k] # sep
         IN  <<SubSeq(text, 1, i - 1), SubSeq(text, i + 1, Len(text))>>
    ELSE <<text>>

\* a replace that leaves the text as it is
replace_none(text, old, new) == text

\* str.replace(old, new) for single characters
replace(text, old, new) ==
    [i \in DOMAIN text |-> IF text[i] = old THEN new ELSE text[i]]

\* HashDb.get_item for any string: a string that is no key has no record
lookup(db, in_filename) ==
    IF in_filename \in DOMAIN db
    THEN get_item(db, in_filename)
    ELSE <<None, None>>

ExtPrefix == <<"#", "E", "X", "T">>

CrLf == <<"\r", "\n">>

RECURSIVE resolve(_, _, _)
\* the while loop of _sync_playlist: look the name up, and as long as it
\* has no record take away its first segment; IndexError when there is no
\* segment left to take away
resolve(db, in_filename, stripped) ==
    LET out_filename == lookup(db, in_filename)[1]
        parts == split1(in_filename, "/")
    IN  IF out_filename # None
        THEN [kind |-> "resolved", stripped |-> stripped,
              written |-> replace(out_filename, "/", "\\") \o CrLf]
        ELSE IF Len(parts) < 2
             THEN [kind |-> "dropped", stripped |-> stripped,
                   written |-> <<>>]
             ELSE resolve(db, parts[2], Append(stripped, parts[1]))

\* a loop body that passes every line through that starts with "#"
sync_line_hash(db, line) ==
    IF startswith(line, <<"#">>)
    THEN [kind |-> "comment", stripped |-> <<>>, written |-> line \o CrLf]
    ELSE resolve(db, line, <<>>)

\* the body of the for loop of _sync_playlist for one line
sync_line(db, line) ==
    IF startswith(line, ExtPrefix)
    THEN [kind |-> "comment", stripped |-> <<>>, written |-> line \o CrLf]
    ELSE resolve(db, line, <<>>)

\* what became of every line of a playlist
Outcomes(db, lines) == [i \in DOMAIN lines |-> sync_line(db, lines[i])]

RECURSIVE Written(_)
\* the lines out_file.write was called with
Written(outcomes) ==
    IF outcomes = <<>>
    THEN <<>>
    ELSE (IF Head(outcomes).kind = "dropped"
          THEN <<>>
          ELSE <<Head(outcomes).written>>) \o Written(Tail(outcomes))

\* the lines a playlist is made of: the header, a name that is a key of the
\* store, the same name below two more segments, written with "/" and
\* with "\", a name that no record is about, and a line that starts with
\* "#" and not with "#EXT"
ExtM3u == <<"#", "E", "X", "T", "M", "3", "U">>
LineKey == FA
LineFwd == <<"C", ":", "/", "m", "/">> \o FA
LineBack == <<"C", ":", "\\", "m", "\\">> \o replace(FA, "/", "\\")
LineNone == <<"x", "/", "y", ".", "f", "l", "a", "c">>

LineHash == <<"#", "c">>

LineUniverse == {ExtM3u, LineKey, LineFwd, LineBack, LineNone, LineHash}

\* a playlist that exists at the destination before the synchronisation
OldPlaylist == [exists |-> TRUE, lines |-> <<<<"o", "l", "d">> \o CrLf>>]

\* what can go wrong with one playlist: unlink, the two codecs.open, read
\* and write each raise an IOError
Faults == {"ok", "unlink", "open_src", "open_dest", "read", "write"}

Unprocessed == [fault |-> "unprocessed", at |-> 0, lines |-> <<>>]

\* the records a store may hold about FA and FB
StoreMaps ==
    {m \in [SrcUniverse -> {None} \cup
                {<<OutFilename(NoArgs, f), calculate_hash(Content1)>> :
                     f \in {FA, FB}}] :
        /\ m[FN] = None
        /\ \A f \in {FA, FB} : m[f] # None => m[f][1] = OutFilename(NoArgs, f)}

InitPlaylists ==
    /\ AudioIdle
    /\ file_tasks = <<>>
    /\ dst0 = {}
    /\ ret = NoCall
    /\ atclose = NeverClosed
    /\ given = <<>>
    /\ result = NoResult
    /\ playlist_src \in
          {t \in [PlaylistNames ->
                    {NoPlaylist} \cup
                    {[exists |-> TRUE, lines |-> l] :
                        l \in UNION {[1..n -> LineUniverse] : n \in 0..MaxLines}}] :
              t[P2] \in {NoPlaylist, [exists |-> TRUE, lines |-> <<ExtM3u, LineKey>>]}}
    /\ playlist_dest \in [PlaylistNames -> {NoPlaylist, OldPlaylist}]
    /\ ppc = "idle"
    /\ ptodo = <<>>
    /\ plog = {}
    /\ plines = [p \in PlaylistNames |-> Unprocessed]

\* the store file and the destination directory before sync_playlists
PlaylistEnv(map, writable) ==
    /\ ppc = "idle"
    /\ dbfile = NoFile
    /\ dirs = {Root}
    /\ ~database.open
    /\ envs = 0
    /\ envs' = 1
    /\ dbfile' = [exists |-> TRUE, map |-> map]
    /\ dirs' = IF writable THEN dirs ELSE {}
    /\ UNCHANGED <<src, dst, database, args, pc, todo, st, applied,
                   file_hashes, removed, file0, unlink_failed, early, raised,
                   wrote, prev, changed, file_tasks, dst0, ret, atclose,
                   given, result, pvars>>

\* with self._hashdb: for playlist_path in playlist_src.rglob("*.m3u")
SyncPlaylistsEnter(order) ==
    /\ ppc = "idle"
    /\ ~database.open
    /\ database' = [open |-> TRUE, map |-> Load(dbfile)]
    /\ ptodo' = order
    /\ ppc' = "loop"
    /\ UNCHANGED <<src, dst, dirs, dbfile, args, pc, todo, st, applied,
                   file_hashes, removed, file0, unlink_failed, early, raised,
                   wrote, prev, changed, envs, file_tasks, dst0, ret, atclose,
                   given, result, playlist_src, playlist_dest, plog, plines>>

\* the playlist the fault leaves at the destination
DestAfter(old, written, fault, k) ==
    CASE fault = "ok" -> [exists |-> TRUE, lines |-> written]
      [] fault = "unlink" -> old
      [] fault = "open_src" -> NoPlaylist
      [] fault = "open_dest" -> NoPlaylist
      [] fault = "read" -> [exists |-> TRUE, lines |-> <<>>]
      [] fault = "write" -> [exists |-> TRUE, lines |-> SubSeq(written, 1, k)]

\* a sync_playlists whose except clause raises the error again: the with
\* statement closes the store and the loop is left
SyncPlaylist_reraises(fault, k) ==
    /\ ppc = "loop"
    /\ ptodo # <<>>
    /\ LET p == Head(ptodo)
           outcomes == Outcomes(database.map, playlist_src[p].lines)
           written == Written(outcomes)
       IN  /\ fault = "unlink" => playlist_dest[p].exists
           /\ fault \in {"ok", "read", "write"} => CanWrite(dirs)
           /\ IF fault = "write" THEN k < Len(written) ELSE k = 0
           /\ playlist_dest' = [playlist_dest EXCEPT
                                   ![p] = DestAfter(@, written, fault, k)]
           /\ plines' = [plines EXCEPT
                            ![p] = [fault |-> fault,
                                    at |-> 1 + Cardinality({q \in PlaylistNames :
                                               plines[q].fault # "unprocessed"}),
                                    lines |-> IF fault \in {"ok", "write"}
                                              THEN outcomes ELSE <<>>]]
           /\ plog' = plog
                \cup (IF fault = "ok" THEN {} ELSE {<<"error", p>>})
                \cup (IF fault \in {"ok", "write"}
                      THEN {<<"warning", p, playlist_src[p].lines[i]>> :
                               i \in {j \in DOMAIN outcomes :
                                         /\ outcomes[j].kind = "dropped"
                                         /\ fault = "write" =>
                                               Len(Written(SubSeq(outcomes, 1, j))) <= k}}
                      ELSE {})
    /\ ptodo' = IF fault = "ok" THEN Tail(ptodo) ELSE <<>>
    /\ ppc' = IF fault = "ok" THEN ppc ELSE "raised"
    /\ database' = IF fault = "ok" THEN database ELSE Closed
    /\ dbfile' = IF fault = "ok" THEN dbfile
                 ELSE Exit(dbfile, database.map, dirs)
    /\ UNCHANGED <<src, dst, dirs, args, pc, todo, st, applied,
                   file_hashes, removed, file0, unlink_failed, early, raised,
                   wrote, prev, changed, envs, file_tasks, dst0, ret, atclose,
                   given, result, playlist_src>>

\* one turn of the loop: try: self._sync_playlist(...) except IOError:
\* logger.error
SyncPlaylist(fault, k) ==
    /\ ppc = "loop"
    /\ ptodo # <<>>
    /\ LET p == Head(ptodo)
           outcomes == Outcomes(database.map, playlist_src[p].lines)
           written == Written(outcomes)
       IN  /\ fault = "unlink" => playlist_dest[p].exists
           /\ fault \in {"ok", "read", "write"} => CanWrite(dirs)
           /\ IF fault = "write" THEN k < Len(written) ELSE k = 0
           /\ playlist_dest' = [playlist_dest EXCEPT
                                   ![p] = DestAfter(@, written, fault, k)]
           /\ plines' = [plines EXCEPT
                            ![p] = [fault |-> fault,
                                    at |-> 1 + Cardinality({q \in PlaylistNames :
                                               plines[q].fault # "unprocessed"}),
                                    lines |-> IF fault \in {"ok", "write"}
                                              THEN outcomes ELSE <<>>]]
           /\ plog' = plog
                \cup (IF fault = "ok" THEN {} ELSE {<<"error", p>>})
                \cup (IF fault \in {"ok", "write"}
                      THEN {<<"warning", p, playlist_src[p].lines[i]>> :
                               i \in {j \in DOMAIN outcomes :
                                         /\ outcomes[j].kind = "dropped"
                                         /\ fault = "write" =>
                                               Len(Written(SubSeq(outcomes, 1, j))) <= k}}
                      ELSE {})
    /\ ptodo' = Tail(ptodo)
    /\ UNCHANGED <<src, dst, dirs, dbfile, database, args, pc, todo, st,
                   applied, file_hashes, removed, file0, unlink_failed, early,
                   raised, wrote, prev, changed, envs, file_tasks, dst0, ret,
                   atclose, given, result, playlist_src, ppc>>

\* an end of sync_playlists that stores an empty mapping
SyncPlaylistsExit_empties ==
    /\ ppc = "loop"
    /\ ptodo = <<>>
    /\ dbfile' = Exit(dbfile, EmptyDb, dirs)
    /\ database' = Closed
    /\ ppc' = "done"
    /\ UNCHANGED <<src, dst, dirs, args, pc, todo, st, applied,
                   file_hashes, removed, file0, unlink_failed, early, raised,
                   wrote, prev, changed, envs, file_tasks, dst0, ret, atclose,
                   given, result, playlist_src, playlist_dest, ptodo, plog,
                   plines>>

\* the loop is over: the with statement closes the store
SyncPlaylistsExit ==
    /\ ppc = "loop"
    /\ ptodo = <<>>
    /\ dbfile' = Exit(dbfile, database.map, dirs)
    /\ database' = Closed
    /\ ppc' = "done"
    /\ UNCHANGED <<src, dst, dirs, args, pc, todo, st, applied,
                   file_hashes, removed, file0, unlink_failed, early, raised,
                   wrote, prev, changed, envs, file_tasks, dst0, ret, atclose,
                   given, result, playlist_src, playlist_dest, ptodo, plog,
                   plines>>

NextPlaylists ==
    \/ \E map \in StoreMaps, writable \in BOOLEAN : PlaylistEnv(map, writable)
    \/ \E order \in Perms({p \in PlaylistNames : playlist_src[p].exists}) :
          SyncPlaylistsEnter(order)
    \/ \E fault \in Faults, k \in 0..MaxLines : SyncPlaylist(fault, k)
    \/ SyncPlaylistsExit

SpecPlaylists == InitPlaylists /\ [][NextPlaylists]_vars

(* ---------------------------------------------------------------------- *)
(* C18                                                                     *)
(* ---------------------------------------------------------------------- *)

\* the store holds the record FA -> d/a_.mp3 (in the example,
\* Artist/Song.flac -> Artist/Song.mp3)
HasRecord == Load(dbfile)[FA] = <<OutFilename(NoArgs, FA), calculate_hash(Content1)>>

\* the line of the rewritten playlist for FA
RewrittenLine == replace(OutFilename(NoArgs, FA), "/", "\\") \o CrLf

\* the lines of playlist p that were read and are the line given
LinesAt(p, line) ==
    {i \in DOMAIN plines[p].lines : playlist_src[p].lines[i] = line}

\* C18 as stated: the line written with backslashes, C:\m\d\a:.flac,
\* resolves after the segments C: and m are stripped, and the rewritten
\* playlist has the line d\a_.mp3 followed by CR+LF.
C18_Original ==
    \A p \in PlaylistNames :
        (HasRecord /\ plines[p].fault = "ok") =>
            \A i \in LinesAt(p, LineBack) :
                /\ plines[p].lines[i].kind = "resolved"
                /\ plines[p].lines[i].stripped = <<<<"C", ":">>, <<"m">>>>
                /\ \E j \in DOMAIN playlist_dest[p].lines :
                      playlist_dest[p].lines[j] = RewrittenLine

\* C18: with the record FA -> d/a_.mp3 in the store, the line written with
\* "/", C:/m/d/a:.flac, resolves after the segments C: and m are stripped
\* and the rewritten playlist has the line d\a_.mp3 followed by CR+LF; the
\* same line written with backslashes has no segment to strip, is dropped
\* with a warning and writes nothing.
C18_SegmentStripping ==
    \A p \in PlaylistNames :
        (HasRecord /\ plines[p].fault = "ok") =>
            /\ \A i \in LinesAt(p, LineFwd) :
                  /\ plines[p].lines[i].kind = "resolved"
                  /\ plines[p].lines[i].stripped = <<<<"C", ":">>, <<"m">>>>
                  /\ plines[p].lines[i].written = RewrittenLine
                  /\ \E j \in DOMAIN playlist_dest[p].lines :
                        playlist_dest[p].lines[j] = RewrittenLine
            /\ \A i \in LinesAt(p, LineBack) :
                  /\ plines[p].lines[i].kind = "dropped"
                  /\ plines[p].lines[i].stripped = <<>>
                  /\ <<"warning", p, LineBack>> \in plog
            /\ (\A i \in DOMAIN plines[p].lines :
                    playlist_src[p].lines[i] = LineBack) =>
                  playlist_dest[p].lines = <<>>

\* C18, witness: a playlist with the line written with "/" and the line
\* written with backslashes has been rewritten to the one line d\a_.mp3.
C18_Witness ==
    /\ ppc = "done"
    /\ HasRecord
    /\ plines[P1].fault = "ok"
    /\ playlist_src[P1].lines = <<LineFwd, LineBack>>
    /\ playlist_dest[P1] = [exists |-> TRUE, lines |-> <<RewrittenLine>>]

(* ---------------------------------------------------------------------- *)
(* C19                                                                     *)
(* ---------------------------------------------------------------------- *)

\* the playlists rglob yields
Yielded == {p \in PlaylistNames : playlist_src[p].exists}

\* C19: an IOError while one playlist is rewritten is logged and does not
\* end sync_playlists: the loop goes on to the next playlist, every playlist
\* below the playlist source that no IOError hits is rewritten, and
\* sync_playlists returns.
C19_IoErrorContained ==
    /\ ppc # "raised"
    /\ \A p \in PlaylistNames :
          plines[p].fault \notin {"unprocessed", "ok"} => <<"error", p>> \in plog
    /\ ppc = "done" =>
          \A p \in Yielded :
              /\ plines[p].fault # "unprocessed"
              /\ plines[p].fault = "ok" =>
                    playlist_dest[p] =
                        [exists |-> TRUE,
                         lines |-> Written(Outcomes(Load(dbfile),
                                                    playlist_src[p].lines))]

\* C19, witness: the first playlist hit an IOError, the second was
\* rewritten after it, and sync_playlists has returned.
C19_Witness ==
    /\ ppc = "done"
    /\ \E p, q \in Yielded :
          /\ plines[p].at = 1
          /\ plines[p].fault \notin {"unprocessed", "ok"}
          /\ plines[q].at = 2
          /\ plines[q].fault = "ok"
          /\ playlist_dest[q].exists
          /\ playlist_dest[q].lines # OldPlaylist.lines

(* ---------------------------------------------------------------------- *)
(* SyncMusic._get_file_actions by itself                                   *)
(* ---------------------------------------------------------------------- *)

\* the choices of --mode
AllModes == {"auto", "transcode", "replaygain", "replaygain-album", "copy"}

\* cover art at the root, in a directory and with a longer name, the three
\* supported types, an unsupported type and a name without extension
ActionFiles ==
    {FolderJpg,
     Txt(<<"d">>, FolderJpg),
     <<"x">> \o FolderJpg,
     FA, FB,
     <<"a">> \o SuffixMp3,
     FN,
     <<"a">>}

\* the settings _get_file_actions depends on
ActionArgs ==
    {[NoArgs EXCEPT !.mode = m,
                    !.disable_file_processing = dfp,
                    !.disable_tag_processing = dtp] :
        m \in AllModes, dfp \in BOOLEAN, dtp \in BOOLEAN}

InitActions ==
    /\ AudioIdle
    /\ file_tasks = <<>>
    /\ dst0 = {}
    /\ ret = NoCall
    /\ atclose = NeverClosed
    /\ NoPlaylists
    /\ given \in {[args |-> a, in_filename |-> f] :
                     a \in ActionArgs, f \in ActionFiles}
    /\ result = NoResult

\* result = self._get_file_actions(in_filename)
SelectActions ==
    /\ ~result.done
    /\ result' = [done |-> TRUE,
                  value |-> _get_file_actions(given.args, given.in_filename)]
    /\ UNCHANGED <<given, rest>>

\* the next file of the listing, with the same settings
NextFile(f) ==
    /\ result.done
    /\ f # given.in_filename
    /\ given' = [given EXCEPT !.in_filename = f]
    /\ result' = NoResult
    /\ UNCHANGED rest

NextActions == SelectActions \/ \E f \in ActionFiles : NextFile(f)

SpecActions == InitActions /\ [][NextActions]_vars

(* ---------------------------------------------------------------------- *)
(* C21                                                                     *)
(* ---------------------------------------------------------------------- *)

\* the decision table of the selection, in its order of priority
Table(mode, in_filename, pipeline) ==
    IF EndsWith(Name(in_filename), FolderJpg) THEN <<"Copy">>
    ELSE IF Suffix(in_filename) \notin get_supported_filetypes THEN <<>>
    ELSE IF mode = "copy" THEN <<"Copy">>
    ELSE IF mode = "auto" /\ Suffix(in_filename) = get_out_filetype
         THEN <<"Copy">>
    ELSE pipeline

PD == <<"d">>
PDE == Txt(PD, <<"e">>)
PDEG == Txt(PDE, <<"g">>)
PDK == Txt(PD, <<"k">>)
PH == <<"h">>

PruneDirs == {PD, PDE, PDEG, PDK, PH}

\* files that may exist in them: the store file, audio files at three
\* depths and a hidden file
PruneFiles ==
    {DbPath, Txt(PD, <<"a">>), Txt(PDE, <<"a">>), Txt(PDEG, <<"a">>),
     Txt(PH, <<".", "h">>)}

\* the destination trees: a directory exists with the directories above it,
\* a file with the directories it is in
PruneTrees ==
    {t \in [dirs : SUBSET (PruneDirs \cup {Root}), files : SUBSET PruneFiles] :
        /\ Root \in t.dirs
        /\ \A d \in t.dirs : Parents(d) \subseteq t.dirs
        /\ \A f \in t.files : Parents(f) \subseteq t.dirs}

RECURSIVE Flatten(_)
Flatten(seqs) == IF seqs = <<>> THEN <<>> ELSE Head(seqs) \o Flatten(Tail(seqs))

RECURSIVE rmdir_calls_lazy(_, _, _)
\* a pruning whose all() stops at the first entry that is not removed
rmdir_calls_lazy(path, ds, files) ==
    IF path \notin ds
    THEN [removed |-> FALSE, calls |-> <<>>]
    ELSE LET listdir == SetToSeq(DirsIn(path, ds) \cup FilesIn(path, files))
             below == [i \in DOMAIN listdir |->
                          rmdir_calls_lazy(listdir[i], ds, files)]
             stop == {i \in DOMAIN listdir : ~below[i].removed}
             seen == IF stop = {} THEN Len(listdir)
                     ELSE CHOOSE i \in stop : \A j \in stop : i <= j
             calls == Flatten([i \in 1..seen |-> below[i].calls])
         IN  IF stop = {}
             THEN [removed |-> TRUE, calls |-> Append(calls, path)]
             ELSE [removed |-> FALSE, calls |-> calls]

RECURSIVE rmdir_calls(_, _, _)
\* util.delete_empty_directories(path): what it returns and the directories
\* os.rmdir is called with, in the order of the calls.  The list
\* comprehension visits every entry of os.listdir(path); an entry that is
\* no directory returns False.
rmdir_calls(path, ds, files) ==
    IF path \notin ds
    THEN [removed |-> FALSE, calls |-> <<>>]
    ELSE LET listdir == SetToSeq(DirsIn(path, ds) \cup FilesIn(path, files))
             below == [i \in DOMAIN listdir |->
                          rmdir_calls(listdir[i], ds, files)]
             calls == Flatten([i \in DOMAIN listdir |-> below[i].calls])
         IN  IF \A i \in DOMAIN listdir : below[i].removed
             THEN [removed |-> TRUE, calls |-> Append(calls, path)]
             ELSE [removed |-> FALSE, calls |-> calls]

InitPrune ==
    /\ AudioIdle
    /\ file_tasks = <<>>
    /\ dst0 = {}
    /\ ret = NoCall
    /\ atclose = NeverClosed
    /\ NoPlaylists
    /\ given \in PruneTrees
    /\ result = NoResult

\* util.delete_empty_directories(self._args.audio_dest)
PruneTree ==
    /\ ~result.done
    /\ result' = [done |-> TRUE,
                  value |-> rmdir_calls(Root, given.dirs, given.files).calls]
    /\ UNCHANGED <<given, rest>>

\* a file appears at the destination or disappears, and the tree is pruned
\* again
TouchDest(f) ==
    /\ result.done
    /\ Parents(f) \subseteq given.dirs
    /\ given' = [given EXCEPT !.files = IF f \in @ THEN @ \ {f} ELSE @ \cup {f}]
    /\ result' = NoResult
    /\ UNCHANGED rest

NextPrune == PruneTree \/ \E f \in PruneFiles : TouchDest(f)

SpecPrune == InitPrune /\ [][NextPrune]_vars

(* ---------------------------------------------------------------------- *)
(* C22                                                                     *)
(* ---------------------------------------------------------------------- *)

\* the directories os.rmdir was called with
Rmdirs == {result.value[i] : i \in DOMAIN result.value}

\* the directory holds a file, at some depth
HoldsFile(d, files) == \E f \in files : d \in Parents(f)

\* C22: after the pruning every directory below the destination root that
\* holds no file at any depth has been removed, a directory after the
\* directories in it, each once, and every directory that holds a file at
\* some depth is retained.  These are the directories the model of
\* sync_audio removes.
C22_Pruning ==
    result.done =>
        /\ \A d \in given.dirs \ {Root} :
              d \in Rmdirs <=> ~HoldsFile(d, given.files)
        /\ Rmdirs \subseteq given.dirs
        /\ \A i, j \in DOMAIN result.value :
              /\ result.value[i] = result.value[j] => i = j
              /\ (result.value[i] # result.value[j]
                    /\ result.value[i] \in Parents(result.value[j])) => j < i
        /\ Rmdirs = delete_empty_directories(Root, given.dirs, given.files)

\* C22, witness: d/e/g and d/k are empty, d/e holds a file; d/e/g and d/k have
\* been removed, d/e and d are retained.
C22_Witness ==
    /\ result.done
    /\ {PD, PDE, PDEG, PDK} \subseteq given.dirs
    /\ Txt(PDE, <<"a">>) \in given.files
    /\ Txt(PDEG, <<"a">>) \notin given.files
    /\ Rmdirs \cap {PD, PDE, PDEG, PDK} = {PDEG, PDK}

(* ---------------------------------------------------------------------- *)
(* C30                                                                     *)
(* ---------------------------------------------------------------------- *)

\* C30 as stated: the pruning removes directories below the destination
\* root only, never the root, also when the root holds no file at all.
C30_Original ==
    result.done => Root \notin Rmdirs

(* ---------------------------------------------------------------------- *)
(* C23                                                                     *)
(* ---------------------------------------------------------------------- *)

\* the step in which sync_audio finds no input file and raises
RaisesNoInput ==
    /\ pc \in {"idle", "done"}
    /\ envs' = envs
    /\ pc' = "done"
    /\ raised'

\* C23: when the source root yields no file, sync_audio raises before the
\* clean-up: the records of the store stay as they are, no destination file
\* and no directory is removed and no action is invoked, also when the store
\* holds records whose source files are all missing.
C23_NoInputFiles ==
    /\ [][RaisesNoInput =>
              /\ Load(dbfile') = Load(dbfile)
              /\ dst' = dst
              /\ dirs' = dirs
              /\ removed' = {}
              /\ \A f \in SrcUniverse : applied'[f] = 0 /\ st'[f] = "none"]_vars
    /\ []((RunEnd /\ raised) =>
              /\ Load(dbfile) = Load(file0)
              /\ removed = {}
              /\ \A f \in SrcUniverse : applied[f] = 0)

\* C23, witness: sync_audio has raised for want of input files; the store
\* holds a record, the source file of every record is missing, and the
\* destination file of the record is still there.
C23_Witness ==
    /\ RunEnd
    /\ raised
    /\ Keys(Load(dbfile)) # {}
    /\ \A k \in Keys(Load(dbfile)) :
          src[k] = Absent /\ Load(dbfile)[k][1] \in dst

(* ---------------------------------------------------------------------- *)
(* C24                                                                     *)
(* ---------------------------------------------------------------------- *)

\* a task that had not started when a task raised an unexpected exception
\* starts to execute its actions
StartsAfterFailure(f) ==
    /\ pc = "sched"
    /\ Aborted
    /\ st[f] = "new"
    /\ st'[f] = "run"

\* C24 as stated: once a task has raised an unexpected exception, no task
\* that had not started is executed, with jobs = 1 and with a pool.
C24_Original ==
    [][\A f \in SrcUniverse : ~StartsAfterFailure(f)]_vars

\* the same for the for loop of jobs = 1 alone
C24_Sequential ==
    [][args.jobs = 1 => \A f \in SrcUniverse : ~StartsAfterFailure(f)]_vars

(* ---------------------------------------------------------------------- *)
(* C25                                                                     *)
(* ---------------------------------------------------------------------- *)

\* the record of f is new or has changed in this invocation
RecordChanged(f) == StoreNow[f] # None /\ StoreNow[f] # loaded[f]

\* C25: at the end of an invocation a record is new or changed only for a
\* file whose actions were all executed without failure in this invocation,
\* and it then holds the sanitized destination name and the hash of the
\* source file; a file whose actions failed, that was skipped as up to date
\* or that has no actions has the record it had, or none.
C25_RecordOnlyOnSuccess ==
    RunEnd =>
        \A f \in SrcUniverse :
            /\ RecordChanged(f) =>
                  /\ st[f] = "ok"
                  /\ applied[f] = Len(_get_file_actions(args, f))
                  /\ StoreNow[f] = <<OutFilename(args, f), calculate_hash(src[f])>>
                  /\ Sanitized(StoreNow[f][1])
            /\ (f \in Tasks /\ st[f] \in {"ioerr", "exc", "uptodate", "skip", "new"}) =>
                  StoreNow[f] = loaded[f]

\* C25, witness: of two files with a record of an earlier content, one was
\* processed and has a changed record, the other failed with an IOError and
\* has the record it had.
C25_Witness ==
    /\ RunEnd
    /\ \E f, g \in Tasks :
          /\ st[f] = "ok"
          /\ loaded[f] # None
          /\ RecordChanged(f)
          /\ st[g] = "ioerr"
          /\ applied[g] > 0
          /\ loaded[g] # None
          /\ StoreNow[g] = loaded[g]

(* ---------------------------------------------------------------------- *)
(* C26                                                                     *)
(* ---------------------------------------------------------------------- *)

\* the destination files the clean-up removes in this step
Unlinked == IF pc = "cleanup" THEN dst \ dst' ELSE {}

\* the records whose source file exists and whose destination is out
LiveRecords(out) ==
    {k \in Keys(database.map) : src[k] # Absent /\ database.map[k][1] = out}

\* C26 as stated: the clean-up never removes a destination file that is the
\* destination of a record whose source file exists.
C26_Original ==
    [][\A out \in Unlinked : LiveRecords(out) = {}]_vars

\* the same for a store in which no two records have the same destination
C26_DistinctDestinations ==
    [][(\A k, l \in Keys(database.map) :
            database.map[k][1] = database.map[l][1] => k = l) =>
          \A out \in Unlinked : LiveRecords(out) = {}]_vars

(* ---------------------------------------------------------------------- *)
(* One run of main: sync_audio, then sync_playlists if --playlist-src is    *)
(* given                                                                   *)
(* ---------------------------------------------------------------------- *)

\* the playlists of the run
RunPlaylists ==
    {t \in [PlaylistNames -> {NoPlaylist} \cup
               {[exists |-> TRUE, lines |-> l] :
                   l \in {<<LineKey>>, <<ExtM3u, LineFwd>>, <<ExtM3u, LineKey>>}}] :
        /\ t[P1] # [exists |-> TRUE, lines |-> <<ExtM3u, LineKey>>]
        /\ t[P2] \in {NoPlaylist, [exists |-> TRUE, lines |-> <<ExtM3u, LineKey>>]}}

\* ppc = "off": no --playlist-src, main does not call sync_playlists
InitRun ==
    /\ src \in {t \in [SrcUniverse -> {Absent, Content1}] :
                    t[FA] = Content1 /\ t[FN] = Absent}
    /\ dst \in SUBSET {OutFilename(NoArgs, FA)}
    /\ dirs = {Root} \cup UNION {Parents(d) : d \in dst}
    /\ dbfile \in {NoFile} \cup {[exists |-> TRUE, map |-> m] : m \in StoreMaps}
    /\ database = Closed
    /\ args = NoArgs
    /\ pc = "idle"
    /\ todo = {}
    /\ st = [f \in SrcUniverse |-> "none"]
    /\ applied = [f \in SrcUniverse |-> 0]
    /\ file_hashes = {}
    /\ removed = {}
    /\ file0 = NoFile
    /\ unlink_failed = {}
    /\ early = {}
    /\ raised = FALSE
    /\ wrote = FALSE
    /\ prev = NoPrev
    /\ changed = NoChange
    /\ envs = 0
    /\ file_tasks = <<>>
    /\ dst0 = dst
    /\ ret = NoCall
    /\ atclose = NeverClosed
    /\ given = <<>>
    /\ result = NoResult
    /\ playlist_src \in RunPlaylists
    /\ playlist_dest = [p \in PlaylistNames |-> NoPlaylist]
    /\ ppc \in {"idle", "off"}
    /\ ptodo = <<>>
    /\ plog = {}
    /\ plines = [p \in PlaylistNames |-> Unprocessed]

\* the destination is lost with all it holds (the device is taken away)
\* when the tasks are done, before sync_audio closes the store
DestLost ==
    /\ pc = "sched"
    /\ \A f \in SrcUniverse : st[f] \notin {"new", "run"}
    /\ Root \in dirs
    /\ dirs' = {}
    /\ dst' = {}
    /\ dbfile' = NoFile
    /\ UNCHANGED <<src, database, args, pc, todo, st, applied, file_hashes,
                   removed, file0, unlink_failed, early, raised, wrote, prev,
                   changed, envs, aux>>

\* the destination root is there again, empty, before the playlists are
\* synchronised
DestBack ==
    /\ pc = "done"
    /\ ppc = "idle"
    /\ Root \notin dirs
    /\ dirs' = {Root}
    /\ UNCHANGED <<src, dst, dbfile, database, args, pc, todo, st, applied,
                   file_hashes, removed, file0, unlink_failed, early, raised,
                   wrote, prev, changed, envs, aux>>

\* main: sync_music.sync_audio(); if args.playlist_src:
\* sync_music.sync_playlists().  A FileNotFoundError of sync_audio ends main.
NextRun ==
    \/ \E force \in BOOLEAN, jobs \in JobsChoice, mode \in Modes :
          pc = "idle" /\ StartRun(force, TRUE, jobs, mode)
    \/ \E k \in SrcUniverse, unlink_ok \in BOOLEAN :
          CleanupItem(k, TRUE, unlink_ok)
    \/ Prune
    \/ \E f \in SrcUniverse : TaskStart(f)
    \/ \E f \in SrcUniverse, outcome \in {"ok", "ioerr", "exc"}, written \in BOOLEAN :
          ActionStep(f, outcome, written)
    \/ Commit
    \/ DestLost
    \/ DestBack
    \/ \E order \in Perms({p \in PlaylistNames : playlist_src[p].exists}) :
          pc = "done" /\ ~raised /\ SyncPlaylistsEnter(order)
    \/ \E fault \in {"ok", "open_src"} : SyncPlaylist(fault, 0)
    \/ SyncPlaylistsExit

SpecRun == InitRun /\ [][NextRun]_vars

(* ---------------------------------------------------------------------- *)
(* C27                                                                     *)
(* ---------------------------------------------------------------------- *)

\* __enter__ loads the store in this step
Opens == ~database.open /\ database'.open

\* __exit__ stores it, or tries to, in this step
Closes == database.open /\ ~database'.open

\* sync_audio finds no input file: the store is loaded and stored in one step
OpensAndCloses == pc = "idle" /\ pc' = "done" /\ raised'

\* main has nothing left to do after this step
RunOver ==
    \/ pc' = "done" /\ (ppc' = "off" \/ raised')
    \/ ppc' = "done"

\* C27 as stated: in one run the store is loaded once, when the run starts,
\* and stored once, when the run ends.
C27_Original ==
    [][/\ Opens => pc = "idle"
       /\ (Closes \/ OpensAndCloses) => RunOver]_vars

\* C27: sync_audio and sync_playlists each load the store when they start
\* and store it when they end, so a run with playlists loads it twice and
\* stores it twice; between the load and the store of sync_audio no addition
\* and no deletion reaches the store file, which is only ever written by
\* the step that closes the store.
C27_LoadStorePerPhase ==
    /\ [][/\ Opens => (pc = "idle" \/ (pc = "done" /\ ppc = "idle"))
          /\ Closes => ((pc = "sched" /\ pc' = "done") \/ ppc' = "done")
          /\ (dbfile' # dbfile /\ dbfile'.exists) => (Closes \/ OpensAndCloses)
          /\ (pc = "sched" /\ pc' = "done" /\ wrote') =>
                Load(dbfile') = AddAll(database.map, Collected)]_vars
    /\ [](pc \in {"cleanup", "sched"} => dbfile \in {file0, NoFile})
    /\ [](ppc = "done" => pc = "done" /\ ~database.open)

\* C27, witness: sync_audio has stored a new record and sync_playlists,
\* having loaded the store again, has resolved a line with it and stored the
\* store a second time.
C27_Witness ==
    /\ pc = "done"
    /\ ppc = "done"
    /\ wrote
    /\ loaded[FA] = None
    /\ StoreNow[FA] # None
    /\ plines[P1].fault = "ok"
    /\ \E i \in DOMAIN plines[P1].lines : plines[P1].lines[i].kind = "resolved"

(* ---------------------------------------------------------------------- *)
(* C28                                                                     *)
(* ---------------------------------------------------------------------- *)

\* the files whose result sync_audio added to the store in this run
Committed == {f \in Tasks : pc = "done" /\ Result(f) \in file_hashes}

\* the lines of a rewritten playlist that name a committed file resolve to
\* its destination
ResolvesCommitted ==
    \A p \in PlaylistNames :
        plines[p].fault = "ok" =>
            \A i \in DOMAIN plines[p].lines :
                playlist_src[p].lines[i] \in Committed =>
                    /\ plines[p].lines[i].kind = "resolved"
                    /\ plines[p].lines[i].written =
                          replace(OutFilename(args, playlist_src[p].lines[i]),
                                  "/", "\\") \o CrLf

\* C28 as stated: the lookups of sync_playlists see every record sync_audio
\* committed in the same run, whether or not the store file could be written
\* when sync_audio closed the store.
C28_Original == ResolvesCommitted

\* the same for a run in which sync_audio could write the store file
C28_Written == wrote => ResolvesCommitted

(* ---------------------------------------------------------------------- *)
(* C29                                                                     *)
(* ---------------------------------------------------------------------- *)

\* C29: the clean-up, pruning included, is over before the first action of
\* the invocation is executed, and it examines the records as they were
\* loaded when the invocation started: while it runs no task has started and
\* no result exists, and once the tasks run no record is deleted, no
\* destination file and no directory is removed, so that the destination
\* file of every task that succeeded is there when the invocation ends.
C29_CleanupFirst ==
    /\ [](pc = "cleanup" =>
              /\ file_hashes = {}
              /\ \A f \in SrcUniverse : applied[f] = 0 /\ st[f] = "none"
              /\ \A k \in todo : database.map[k] = loaded[k])
    /\ [](pc = "sched" => todo = {})
    /\ [][(pc = "cleanup" /\ pc' = "sched") =>
              delete_empty_directories(Root, dirs', DestFiles(dst', dbfile')) = {}]_vars
    /\ [][pc = "sched" =>
              /\ dst \subseteq dst'
              /\ dirs \subseteq dirs'
              /\ removed' = removed
              /\ pc' = "sched" => database' = database]_vars
    /\ []((RunEnd /\ ~raised) =>
              \A f \in Tasks : st[f] = "ok" => OutFilename(args, f) \in dst)

\* C29, witness: the clean-up removed the destination file of a missing
\* source file, and a task of the same invocation then produced a file of
\* that name, which is there at the end.
C29_Witness ==
    /\ RunEnd
    /\ \E f \in Tasks :
          /\ st[f] = "ok"
          /\ OutFilename(args, f) \in removed
          /\ OutFilename(args, f) \in dst

(* ---------------------------------------------------------------------- *)
(* C31                                                                     *)
(* ---------------------------------------------------------------------- *)

\* the places of the separators of a line
Seps(line) == {i \in DOMAIN line : line[i] = "/"}

\* the line without its first k segments
StripSegments(line, k) ==
    IF k = 0
    THEN line
    ELSE LET i == CHOOSE j \in Seps(line) :
                      Cardinality({m \in Seps(line) : m <= j}) = k
         IN  SubSeq(line, i + 1, Len(line))

\* the numbers of leading segments whose removal leaves a key of the store
Hits(db, line) ==
    {k \in 0..Cardinality(Seps(line)) :
        lookup(db, StripSegments(line, k))[1] # None}

\* the first suffix of the line that is a key
FirstHit(db, line) ==
    CHOOSE k \in Hits(db, line) : \A m \in Hits(db, line) : k <= m

\* what the claim has written for one line: nothing, or one line
Expected(db, line) ==
    IF startswith(line, ExtPrefix)
    THEN <<line \o CrLf>>
    ELSE IF Hits(db, line) = {}
         THEN <<>>
         ELSE LET d == lookup(db, StripSegments(line, FirstHit(db, line)))[1]
              IN  <<[i \in DOMAIN d |-> IF d[i] = "/" THEN "\\" ELSE d[i]]
                        \o CrLf>>

RECURSIVE Rewritten(_, _)
\* the rewritten playlist the claim describes
Rewritten(db, lines) ==
    IF lines = <<>>
    THEN <<>>
    ELSE Expected(db, Head(lines)) \o Rewritten(db, Tail(lines))

\* C31: a playlist line that is no "#EXT" line is looked up as it is and
\* then without its first segment, without its first two segments and so
\* on; the first of these suffixes that is a key of the store decides the
\* line written, the record's destination path with every "/" replaced by
\* "\" and followed by CR+LF; when no suffix is a key the line is dropped
\* with a warning and nothing is written for it.
C31_SuffixLookup ==
    \A p \in PlaylistNames :
        plines[p].fault = "ok" =>
            /\ \A i \in DOMAIN plines[p].lines :
                  LET line == playlist_src[p].lines[i]
                      o == plines[p].lines[i]
                      db == Load(dbfile)
                  IN  ~startswith(line, ExtPrefix) =>
                          IF Hits(db, line) = {}
                          THEN /\ o.kind = "dropped"
                               /\ o.written = <<>>
                               /\ <<"warning", p, line>> \in plog
                          ELSE /\ o.kind = "resolved"
                               /\ Len(o.stripped) = FirstHit(db, line)
                               /\ <<o.written>> = Expected(db, line)
                               /\ <<"warning", p, line>> \in plog =>
                                     \E j \in DOMAIN plines[p].lines :
                                         /\ j # i
                                         /\ playlist_src[p].lines[j] = line
            /\ playlist_dest[p].lines =
                  Rewritten(Load(dbfile), playlist_src[p].lines)

\* C31, witness: a playlist with a line that resolves after two segments
\* are stripped and a line of which no suffix is a key has been rewritten
\* to the one line d\a_.mp3, and the warning is logged.
C31_Witness ==
    /\ ppc = "done"
    /\ HasRecord
    /\ plines[P1].fault = "ok"
    /\ playlist_src[P1].lines = <<LineFwd, LineNone>>
    /\ playlist_dest[P1].lines = <<RewrittenLine>>
    /\ <<"warning", P1, LineNone>> \in plog

(* ---------------------------------------------------------------------- *)
(* C32                                                                     *)
(* ---------------------------------------------------------------------- *)

\* the lines written for the lines before line i of playlist p
WrittenBefore(p, i) == Len(Written(SubSeq(plines[p].lines, 1, i - 1)))

\* C32 as stated: every line that starts with "#" is written as it is,
\* followed by CR+LF, and is neither looked up nor dropped.
C32_Original ==
    \A p \in PlaylistNames :
        plines[p].fault = "ok" =>
            \A i \in DOMAIN plines[p].lines :
                LET line == playlist_src[p].lines[i]
                IN  startswith(line, <<"#">>) =>
                        /\ plines[p].lines[i].kind = "comment"
                        /\ playlist_dest[p].lines[WrittenBefore(p, i) + 1] =
                              line \o CrLf

\* C32: every line that starts with "#EXT" is written as it is, followed
\* by CR+LF, after the lines written for the lines before it, whatever the
\* store holds; a line that starts with "#" and not with "#EXT" is looked
\* up like a file name, and the line #c, of which no suffix is a key, is
\* dropped with a warning.
C32_ExtPassThrough ==
    \A p \in PlaylistNames :
        plines[p].fault = "ok" =>
            \A i \in DOMAIN plines[p].lines :
                LET line == playlist_src[p].lines[i]
                IN  /\ startswith(line, ExtPrefix) =>
                          /\ plines[p].lines[i].kind = "comment"
                          /\ plines[p].lines[i].stripped = <<>>
                          /\ playlist_dest[p].lines[WrittenBefore(p, i) + 1] =
                                line \o CrLf
                    /\ line = LineHash =>
                          /\ plines[p].lines[i].kind = "dropped"
                          /\ <<"warning", p, LineHash>> \in plog
                          /\ \A j \in DOMAIN playlist_dest[p].lines :
                                playlist_dest[p].lines[j] # LineHash \o CrLf

\* C32, witness: a playlist with the header #EXTM3U and the line #c has
\* been rewritten to the header alone.
C32_Witness ==
    /\ ppc = "done"
    /\ plines[P1].fault = "ok"
    /\ playlist_src[P1].lines = <<ExtM3u, LineHash>>
    /\ playlist_dest[P1].lines = <<ExtM3u \o CrLf>>
    /\ <<"warning", P1, LineHash>> \in plog

(* ---------------------------------------------------------------------- *)
(* C33                                                                     *)
(* ---------------------------------------------------------------------- *)

\* the text has one of the characters
Has(text, chars) == \E i \in DOMAIN text : text[i] \in chars

\* a path relative to the root: it does not start at "/"
Relative(path) == path # <<>> /\ Head(path) # "/"

\* the results sync_audio has added to the store
CommittedResults == IF pc = "done" THEN file_hashes ELSE {}

\* C33: every record a run commits has as its key the source path as
\* list_all_files gave it, characters such as ":" included, and as its
\* destination a path relative to the destination root with none of the
\* characters \ : * ? " < > |; a playlist line that is a key with ":" or
\* "*" in it is rewritten to the sanitized destination name of the record.
C33_SanitizedRecords ==
    /\ \A r \in CommittedResults :
          /\ r[1] \in Tasks
          /\ Relative(r[2])
          /\ ~Has(r[2], Fat32Eight)
          /\ \A i \in DOMAIN r[2] :
                i <= Len(SplitExt(r[1])[1]) => r[2][i] = IF r[1][i] \in Fat32Eight
                                                THEN "_" ELSE r[1][i]
          /\ (wrote /\ ppc \in {"idle", "off"}) =>
                /\ StoreNow[r[1]] = <<r[2], r[3]>>
                /\ r[1] \in Keys(StoreNow)
    /\ \A p \in PlaylistNames :
          plines[p].fault = "ok" =>
              \A i \in DOMAIN plines[p].lines :
                  LET line == playlist_src[p].lines[i]
                  IN  (/\ line \in Keys(StoreNow)
                       /\ Has(line, {":", "*"})) =>
                          /\ plines[p].lines[i].kind = "resolved"
                          /\ ~Has(plines[p].lines[i].written, Fat32Eight \ {"\\"})
                          /\ Len(plines[p].lines[i].written) =
                                Len(StoreNow[line][1]) + 2
                          /\ \A j \in DOMAIN StoreNow[line][1] :
                                plines[p].lines[i].written[j] =
                                    IF StoreNow[line][1][j] = "/"
                                    THEN "\\" ELSE StoreNow[line][1][j]

\* C33, witness: a run has committed the record d/a:.flac -> d/a_.mp3 and
\* rewritten the playlist line d/a:.flac to d\a_.mp3.
C33_Witness ==
    /\ ppc = "done"
    /\ wrote
    /\ loaded[FA] = None
    /\ \E r \in CommittedResults : r[1] = FA /\ Has(r[1], {":"})
    /\ plines[P1].fault = "ok"
    /\ playlist_src[P1].lines = <<LineKey>>
    /\ playlist_dest[P1].lines =
          <<<<"d", "\\", "a", "_", ".", "m", "p", "3">> \o CrLf>>

(* ---------------------------------------------------------------------- *)
(* C34                                                                     *)
(* ---------------------------------------------------------------------- *)

\* the task of f is decided in this step
Decided(f) == pc = "sched" /\ pc' = "sched" /\ st[f] = "new" /\ st'[f] # "new"

\* C34: a task with an empty action list is skipped and has no effect: the
\* step that skips it leaves the destination files, the directories, the
\* store and the results as they are; no action is ever executed for it, no
\* result has its path, and its record, or the lack of one, is what the
\* invocation loaded.
C34_EmptySkipped ==
    /\ [][\A f \in SrcUniverse :
             (Decided(f) /\ ~HasActions(f)) =>
                 /\ st'[f] = "skip"
                 /\ UNCHANGED <<dst, dirs, dbfile, database, file_hashes,
                                applied, removed>>]_vars
    /\ [](\A f \in SrcUniverse :
             (~HasActions(f) /\ pc \in {"sched", "done"}) =>
                 /\ st[f] \in {"none", "new", "skip"}
                 /\ applied[f] = 0
                 /\ OutFilename(args, f) = None
                 /\ \A r \in file_hashes : r[1] # f
                 /\ st[f] = "skip" => StoreNow[f] = loaded[f])

\* C34, witness: an invocation has ended in which the file n.txt, for which
\* there is no action, was skipped while another file was processed, and
\* the store has no record of n.txt.
C34_Witness ==
    /\ RunEnd
    /\ st[FN] = "skip"
    /\ ~HasActions(FN)
    /\ st[FA] = "ok"
    /\ StoreNow[FA] # None
    /\ StoreNow[FN] = None
    /\ dst = {OutFilename(args, FA)}

(* ---------------------------------------------------------------------- *)
(* C35                                                                     *)
(* ---------------------------------------------------------------------- *)

RECURSIVE AddInOrder(_, _)
\* the loop over the results, the results taken in the order given
AddInOrder(db, results) ==
    IF results = <<>>
    THEN db
    ELSE AddInOrder(add_item(db, Head(results)[1], Head(results)[2],
                             Head(results)[3]),
                    Tail(results))

\* sync_audio adds the results and closes the store in this step
Commits == pc = "sched" /\ pc' = "done"

\* C35: every source path has one task and at most one result, and the
\* mapping sync_audio stores does not depend on the order in which the
\* results are added: added in any order, the results collected give the
\* mapping that is written to the store file.
C35_CommitOrder ==
    /\ [](\A r, q \in file_hashes :
             /\ r[1] \in Tasks
             /\ st[r[1]] = "ok"
             /\ r[1] = q[1] => r = q)
    /\ [][Commits =>
             \A order \in Perms(Collected) :
                 /\ AddInOrder(database.map, order) =
                       AddAll(database.map, Collected)
                 /\ wrote' => Load(dbfile') = AddInOrder(database.map, order)]_vars

\* C35, witness: sync_audio has added the results of two files, which have
\* the same destination, and stored a mapping with both records.
C35_Witness ==
    /\ pc = "done"
    /\ wrote
    /\ Cardinality(file_hashes) = 2
    /\ \A r, q \in file_hashes : r[2] = q[2]
    /\ \A r \in file_hashes : Load(dbfile)[r[1]] = <<r[2], r[3]>>

(* ---------------------------------------------------------------------- *)
(* One run over source files that were edited since the store was written  *)
(* ---------------------------------------------------------------------- *)

\* the contents of a source file: its first 4096 bytes and the bytes after
Contents == {[head |-> h, tail |-> t] : h \in 1..2, t \in 1..2}

\* a run without playlists of which the store, if there is one, holds the
\* hashes of the contents the files had
InitChange ==
    /\ InitRun
    /\ ppc = "off"
    /\ \A p \in PlaylistNames : playlist_src[p] = NoPlaylist

\* a source file is edited before the run, in its first 4096 bytes or after
\* them
SourceEdited(f, part) ==
    /\ pc = "idle"
    /\ src[f] # Absent
    /\ envs < MaxEnv
    /\ envs' = envs + 1
    /\ src' = [src EXCEPT ![f] = IF part = "head"
                                 THEN [@ EXCEPT !.head = 3 - @]
                                 ELSE [@ EXCEPT !.tail = 3 - @]]
    /\ UNCHANGED <<dst, dirs, dbfile, database, args, pc, todo, st, applied,
                   file_hashes, removed, file0, unlink_failed, early, raised,
                   wrote, prev, changed, aux>>

NextChange ==
    \/ \E f \in SrcUniverse, part \in {"head", "tail"} : SourceEdited(f, part)
    \/ \E force \in BOOLEAN, jobs \in JobsChoice, mode \in Modes :
          pc = "idle" /\ StartRun(force, TRUE, jobs, mode)
    \/ \E k \in SrcUniverse, unlink_ok \in BOOLEAN :
          CleanupItem(k, TRUE, unlink_ok)
    \/ Prune
    \/ \E f \in SrcUniverse : TaskStart(f)
    \/ \E f \in SrcUniverse, outcome \in {"ok", "ioerr", "exc"}, written \in BOOLEAN :
          ActionStep(f, outcome, written)
    \/ Commit

SpecChange == InitChange /\ [][NextChange]_vars

(* ---------------------------------------------------------------------- *)
(* C36                                                                     *)
(* ---------------------------------------------------------------------- *)

\* the record of f holds the hash of a content with the first 4096 bytes
\* the file has now
SamePrefixAsRecorded(f) ==
    /\ database.map[f] # None
    /\ \E c \in Contents :
          /\ c.head = src[f].head
          /\ database.map[f][2] = calculate_hash(c)

\* C36: the hash is a function of the first 4096 bytes of the file alone:
\* contents with the same first 4096 bytes have the same hash; so a file
\* that was edited only after these bytes has the hash of its record, and
\* without --force and with its destination file there its task is skipped
\* as up to date: no action is executed and the record stays as it is.
C36_PrefixOnly ==
    /\ [](\A c, d \in Contents :
             c.head = d.head => calculate_hash(c) = calculate_hash(d))
    /\ [][\A f \in SrcUniverse :
             (/\ Decided(f)
              /\ HasActions(f)
              /\ ~args.force
              /\ SamePrefixAsRecorded(f)
              /\ OutFilename(args, f) \in dst) =>
                 /\ st'[f] = "uptodate"
                 /\ UNCHANGED <<dst, dirs, database, file_hashes, applied>>]_vars
    /\ [](\A f \in SrcUniverse :
             st[f] = "uptodate" =>
                 /\ applied[f] = 0
                 /\ \A r \in file_hashes : r[1] # f
                 /\ (pc = "done" /\ wrote) => StoreNow[f] = loaded[f])

\* C36, witness: d/a:.flac was edited after its first 4096 bytes, and the
\* run, without --force and with the destination file there, has skipped it
\* as up to date and kept the record with the hash of the earlier content.
C36_Witness ==
    /\ pc = "done"
    /\ ~args.force
    /\ src[FA] = [head |-> 1, tail |-> 2]
    /\ st[FA] = "uptodate"
    /\ OutFilename(args, FA) \in dst
    /\ StoreNow[FA] = <<OutFilename(args, FA), calculate_hash(Content1)>>

(* ---------------------------------------------------------------------- *)
(* C37                                                                     *)
(* ---------------------------------------------------------------------- *)

\* a step of sync_playlists
PlaylistStep == ppc' # ppc \/ ptodo' # ptodo \/ plines' # plines

\* C37: sync_playlists adds, changes and deletes no record and executes no
\* action: no step of it changes the mapping in memory, the mapping it has
\* in memory is the one it loaded, the mapping of the store file is the
\* same after every step of it, and the destination files and directories
\* of the audio files, the tasks and the results stay as sync_audio left
\* them.
C37_PlaylistsReadOnly ==
    /\ [][PlaylistStep =>
             /\ Opens => database'.map = Load(dbfile)
             /\ (database.open /\ database'.open) => database'.map = database.map
             /\ Closes => dbfile' \in {dbfile, [exists |-> TRUE, map |-> database.map]}
             /\ Load(dbfile') = Load(dbfile)
             /\ UNCHANGED <<src, dst, dirs, st, applied, file_hashes, removed>>]_vars
    /\ [](ppc = "loop" => database.open /\ database.map = Load(dbfile))

\* C37, witness: sync_playlists has rewritten a playlist with a store that
\* holds a record and a destination that holds the file of the record, and
\* both are as they were.
C37_Witness ==
    /\ ppc = "done"
    /\ CanWrite(dirs)
    /\ plines[P1].fault = "ok"
    /\ \E i \in DOMAIN plines[P1].lines : plines[P1].lines[i].kind = "resolved"
    /\ Load(dbfile)[FA] = <<OutFilename(args, FA), calculate_hash(src[FA])>>
    /\ dst = {OutFilename(args, FA)}
    /\ st[FA] = "uptodate"

(* ---------------------------------------------------------------------- *)
(* One run over trees and a store that earlier runs and the user have left *)
(* ---------------------------------------------------------------------- *)

\* the source files that exist, which may be none; the destination files of
\* d/a:.flac in mode auto and of both files in mode copy, any of which the
\* user may have deleted; the records of earlier runs in either mode
InitTrees ==
    /\ src \in {t \in [SrcUniverse -> {Absent, Content1}] : t[FN] = Absent}
    /\ dst \in SUBSET ({OutFilename(NoArgs, FA)} \cup {CopyOut(f) : f \in {FA, FB}})
    /\ dirs = {Root} \cup UNION {Parents(d) : d \in dst}
    /\ dbfile \in {NoFile} \cup
                  {[exists |-> TRUE, map |-> m] :
                       m \in {n \in [SrcUniverse -> UNION {RecordsOf(f) : f \in SrcUniverse}] :
                                \A f \in SrcUniverse : n[f] \in RecordsOf(f)}}
    /\ database = Closed
    /\ args = NoArgs
    /\ pc = "idle"
    /\ todo = {}
    /\ st = [f \in SrcUniverse |-> "none"]
    /\ applied = [f \in SrcUniverse |-> 0]
    /\ file_hashes = {}
    /\ removed = {}
    /\ file0 = NoFile
    /\ unlink_failed = {}
    /\ early = {}
    /\ raised = FALSE
    /\ wrote = FALSE
    /\ prev = NoPrev
    /\ changed = NoChange
    /\ envs = 0
    /\ file_tasks = <<>>
    /\ dst0 = dst
    /\ ret = NoCall
    /\ atclose = NeverClosed
    /\ given = <<>>
    /\ result = NoResult
    /\ NoPlaylists

NextTrees ==
    \/ \E force, batch \in BOOLEAN, jobs \in JobsChoice, mode \in Modes :
          pc = "idle" /\ StartRun(force, batch, jobs, mode)
    \/ \E k \in SrcUniverse, answer, unlink_ok \in BOOLEAN :
          CleanupItem(k, answer, unlink_ok)
    \/ Prune
    \/ \E f \in SrcUniverse : TaskStart(f)
    \/ \E f \in SrcUniverse, outcome \in {"ok", "ioerr", "exc"}, written \in BOOLEAN :
          ActionStep(f, outcome, written)
    \/ Commit

SpecTrees == InitTrees /\ [][NextTrees]_vars

(* ---------------------------------------------------------------------- *)
(* C38                                                                     *)
(* ---------------------------------------------------------------------- *)

\* no action of a task and no unlink of the clean-up failed
NothingFailed ==
    /\ unlink_failed = {}
    /\ \A f \in SrcUniverse : st[f] \notin {"ioerr", "exc"}

\* every record is about a source file that exists and names a destination
\* file that exists
Consistent ==
    \A k \in Keys(StoreNow) :
        /\ src[k] # Absent
        /\ StoreNow[k][1] \in dst

\* C38 as stated: when a run in batch mode ends in which no action and no
\* deletion failed, every record of the store has a source file that exists
\* and a destination file that exists.
C38_Original == (RunEnd /\ args.batch /\ NothingFailed) => Consistent

\* the record names the destination the run gives the file
NamesCurrent(k) == StoreNow[k][1] = OutFilename(args, k)

\* C38: when a run in batch mode ends that was not aborted for want of
\* input files and in which no action and no deletion failed, every record
\* of the store has a source file that exists, and its destination file
\* exists if the record names the destination the run gives the file; a
\* record of an earlier run in another mode can name a file that is gone,
\* and a run that is aborted with "No input files" leaves every record as
\* it was.
C38_Consistent ==
    /\ (RunEnd /\ args.batch /\ NothingFailed /\ ~raised) =>
          \A k \in Keys(StoreNow) :
              /\ src[k] # Absent
              /\ NamesCurrent(k) => StoreNow[k][1] \in dst
    /\ (RunEnd /\ raised) => StoreNow = loaded

\* C38, witness: a run in batch mode has ended without a failure in which
\* the clean-up deleted the record and the destination file of a source
\* file that is gone, and the record of the other file and its destination
\* file are there.
C38_Witness ==
    /\ RunEnd
    /\ args.batch
    /\ NothingFailed
    /\ ~raised
    /\ src[FB] = Absent
    /\ loaded[FB] # None
    /\ loaded[FB][1] \in removed
    /\ StoreNow[FB] = None
    /\ StoreNow[FA] # None
    /\ NamesCurrent(FA)
    /\ StoreNow[FA][1] \in dst

(* ---------------------------------------------------------------------- *)
(* The lookup loop of _sync_playlist, one turn at a time                   *)
(* ---------------------------------------------------------------------- *)

\* the lines looked up: the lines of the playlists, the empty line, a line
\* of separators alone, and the name of the other file, alone and below a
\* segment that is empty
LookupLines == LineUniverse \cup {<<>>, <<"/", "/">>, FB, <<"/">> \o FB}

\* in_filename = line, before the while loop
Looking(line) == [line |-> line, in_filename |-> line, retries |-> 0]

InitLookup ==
    /\ src = [f \in SrcUniverse |-> Absent]
    /\ dst = {}
    /\ dirs = {Root}
    /\ dbfile \in {NoFile} \cup {[exists |-> TRUE, map |-> m] : m \in StoreMaps}
    /\ database = Closed
    /\ args = NoArgs
    /\ pc = "idle"
    /\ todo = {}
    /\ st = [f \in SrcUniverse |-> "none"]
    /\ applied = [f \in SrcUniverse |-> 0]
    /\ file_hashes = {}
    /\ removed = {}
    /\ file0 = NoFile
    /\ unlink_failed = {}
    /\ early = {}
    /\ raised = FALSE
    /\ wrote = FALSE
    /\ prev = NoPrev
    /\ changed = NoChange
    /\ envs = 0
    /\ file_tasks = <<>>
    /\ dst0 = {}
    /\ ret = NoCall
    /\ atclose = NeverClosed
    /\ NoPlaylists
    /\ given \in {Looking(line) : line \in LookupLines}
    /\ result = NoResult

\* one turn of while True: get_item, and either the break, or the split
\* that raises IndexError, or the next in_filename
LookupTurn ==
    /\ ~result.done
    /\ LET out_filename == lookup(Load(dbfile), given.in_filename)[1]
           parts == split1(given.in_filename, "/")
       IN  IF out_filename # None
           THEN /\ result' = [done |-> TRUE,
                              value |-> [kind |-> "resolved",
                                         written |-> replace(out_filename, "/", "\\")
                                                        \o CrLf]]
                /\ UNCHANGED given
           ELSE IF Len(parts) < 2
                THEN /\ result' = [done |-> TRUE,
                                   value |-> [kind |-> "dropped",
                                              written |-> <<>>]]
                     /\ UNCHANGED given
                ELSE /\ given' = [given EXCEPT !.in_filename = parts[2],
                                               !.retries = @ + 1]
                     /\ UNCHANGED result
    /\ UNCHANGED rest

\* the for loop goes on to the next line
NextLine(line) ==
    /\ result.done
    /\ given' = Looking(line)
    /\ result' = NoResult
    /\ UNCHANGED rest

NextLookup ==
    \/ LookupTurn
    \/ \E line \in LookupLines : NextLine(line)

\* the loop is not suspended: a turn that can be taken is taken
SpecLookup == InitLookup /\ [][NextLookup]_vars /\ WF_vars(LookupTurn)

(* ---------------------------------------------------------------------- *)
(* C39                                                                     *)
(* ---------------------------------------------------------------------- *)

\* the number of separators of a line
Separators(line) == Cardinality({i \in DOMAIN line : line[i] = "/"})

\* C39: the lookup of a playlist line ends, whatever the line and the
\* store: every turn that does not end it goes on with a strictly shorter
\* name that has one separator less, no more turns are retried than the
\* line has separators, and every lookup that is started ends with the line
\* resolved or dropped, as the loop taken as a whole decides.
C39_LookupTerminates ==
    /\ [][(LookupTurn /\ ~result'.done) =>
             /\ Len(given'.in_filename) < Len(given.in_filename)
             /\ Separators(given'.in_filename) = Separators(given.in_filename) - 1
             /\ given'.retries = given.retries + 1]_vars
    /\ [](/\ given.retries <= Separators(given.line)
          /\ given.retries + Separators(given.in_filename) = Separators(given.line)
          /\ result.done =>
                /\ result.value.kind \in {"resolved", "dropped"}
                /\ result.value.kind = resolve(Load(dbfile), given.line, <<>>).kind
                /\ result.value.written =
                      resolve(Load(dbfile), given.line, <<>>).written)
    /\ (~result.done) ~> result.done

\* C39, witness: the lookup of C:/m/d/a:.flac has ended after two retries
\* with the line resolved.
C39_Witness ==
    /\ result.done
    /\ given.line = LineFwd
    /\ given.retries = 2
    /\ Separators(given.line) = 3
    /\ result.value.kind = "resolved"

====
